---- MODULE Spec2Model ----
(***************************************************************************)
(* PISA: the top-k queue (include/pisa/topk_queue.hpp), the ranked OR/AND *)
(* query loops (tools/evaluate_queries/ranked.cpp) that feed it, and the   *)
(* query container, query request and request flags (src/query.cpp).       *)
(*                                                                         *)
(* Scores are binary32 floats in the source.  Here a score is a natural    *)
(* number counting units of 0.0001, so the relaxation that set_threshold   *)
(* subtracts is one unit.  binary32 precision is kept as a two-level grid: *)
(* below CoarseFrom every unit is representable, from CoarseFrom on only   *)
(* the multiples of CoarseUlp are (as for floats of 2048 and more, whose   *)
(* spacing of 0.000244 exceeds twice the relaxation).                      *)
(***************************************************************************)
EXTENDS Integers, Sequences, FiniteSets, TLC

VARIABLES
    m_k,          \* topk_queue::m_k, the capacity
    m_threshold,  \* topk_queue::m_threshold
    m_q,          \* topk_queue::m_q, entries <<score, docid>>
    ret,          \* value returned by the last insert
    branch,       \* the path the last insert took: "reject", "push", "pop"
    finalized,    \* finalize() has run since the last clear()
    hint,         \* how m_threshold was last set by the caller
    inserted,     \* the entries offered to insert since construction
    tau,          \* the threshold hint given to the seeded queue
    seeded,       \* a second topk_queue, seeded with tau, fed the same inserts
    index,        \* the index: one posting list of <<docid, freq>> per term
    queries,      \* query_loop: the queries, each a sequence of terms
    algorithm,    \* query_loop: "or" (ranked_or_query) or "and" (ranked_and_query)
    qidx,         \* query_loop: number of queries already answered
    results,      \* query_loop: results[1..qidx]
    cursors,      \* position of the cursor of each term of the running query
    candidate,    \* ranked_and_query: the pivot docid
    steps,        \* iterations of the running query so far
    pc,           \* query_loop: "loop" between queries, "run" inside run(...)
    m_data,       \* QueryContainer::m_data, the QueryContainerInner
    flags,        \* RequestFlagSet::flags
    call,         \* the last call on the query data model: its operation,
                  \* its arguments, the value returned and the error raised
    reader,       \* a QueryReader: its stream, line buffer, format,
                  \* filter functions and map functions
    live,         \* live-block computation: the scores, the threshold and
                  \* what each of the three functions returned
    builder,      \* a block_freq_index::builder
    stream_builder, \* a block_freq_index::stream_builder
    index_file,   \* the bytes of the file written by stream_builder::build
    sq,           \* a block_freq_index
    other_sq,     \* a second block_freq_index, the argument of swap
    raw_cursor    \* a RawCursor: m_current and m_bytes

queue_vars == <<m_k, m_threshold, m_q, ret, branch, finalized, hint>>
replay_vars == <<inserted, tau, seeded>>
loop_vars == <<index, queries, algorithm, qidx, results, cursors, candidate, steps, pc>>
query_vars == <<m_data, flags, call>>
index_vars == <<builder, stream_builder, index_file, sq, other_sq>>
ext_vars == <<reader, live, index_vars, raw_cursor>>
vars == <<queue_vars, replay_vars, loop_vars, query_vars, ext_vars>>

----------------------------------------------------------------------------
(* Bounds *)
MaxK == 2
MaxScore == 8
MaxDocid == 1
MaxQueryK == 3

(* binary32 grid and the relaxation, in units of 0.0001 *)
Epsilon == 1
CoarseFrom == 4
CoarseUlp == 4

Max(a, b) == IF a >= b THEN a ELSE b
Min(a, b) == IF a <= b THEN a ELSE b

\* the values a float can hold
Threshold == {x \in 0..MaxScore : x < CoarseFrom \/ x % CoarseUlp = 0}

\* conversion of a non-negative double to float: round to nearest
float32(x) ==
    IF x < CoarseFrom THEN x
    ELSE LET lo == (x \div CoarseUlp) * CoarseUlp
             hi == lo + CoarseUlp
         IN IF x - lo < hi - x THEN lo ELSE hi

Docids == 0..MaxDocid

----------------------------------------------------------------------------
(* std::vector<entry_type>, addressed from 0 as in the source *)
At(q, i) == q[i + 1]
Put(q, i, v) == [q EXCEPT ![i + 1] = v]
front(q) == q[1]
pop_back(q) == SubSeq(q, 1, Len(q) - 1)

\* variant of the heap order with the comparison turned round
min_heap_order_reversed(lhs, rhs) == lhs[1] < rhs[1]

min_heap_order(lhs, rhs) == lhs[1] > rhs[1]

\* std::__push_heap(first, holeIndex, topIndex, value)
RECURSIVE push_heap_from(_, _, _, _)
push_heap_from(q, hole, top, value) ==
    LET parent == (hole - 1) \div 2 IN
    IF hole > top /\ min_heap_order(At(q, parent), value)
    THEN push_heap_from(Put(q, hole, At(q, parent)), parent, top, value)
    ELSE Put(q, hole, value)

\* std::push_heap(m_q.begin(), m_q.end(), min_heap_order)
push_heap(q) == push_heap_from(q, Len(q) - 1, 0, q[Len(q)])

\* the descent of std::__adjust_heap: the hole moves to the child that
\* comes first in heap order until it has no two children
RECURSIVE adjust_descend(_, _, _)
adjust_descend(q, hole, len) ==
    IF hole < (len - 1) \div 2
    THEN LET right == 2 * (hole + 1)
             child == IF min_heap_order(At(q, right), At(q, right - 1))
                      THEN right - 1 ELSE right
         IN adjust_descend(Put(q, hole, At(q, child)), child, len)
    ELSE <<q, hole>>

\* std::__adjust_heap(first, 0, len, value)
adjust_heap(q, len, value) ==
    LET d == adjust_descend(q, 0, len)
        q1 == d[1]
        hole == d[2]
    IN IF len % 2 = 0 /\ hole = (len - 2) \div 2
       THEN LET only == 2 * (hole + 1) - 1
            IN push_heap_from(Put(q1, hole, At(q1, only)), only, 0, value)
       ELSE push_heap_from(q1, hole, 0, value)

\* std::__pop_heap(first, last, last) on the first n elements, n >= 2:
\* the root goes to position n-1 and the rest is a heap again
pop_heap_n(q, n) ==
    LET value == At(q, n - 1)
    IN adjust_heap(Put(q, n - 1, At(q, 0)), n - 1, value)

\* variant of pop_heap that leaves the sequence as it is
pop_heap_missing(q) == q

\* std::pop_heap(m_q.begin(), m_q.end(), min_heap_order)
pop_heap(q) == IF Len(q) > 1 THEN pop_heap_n(q, Len(q)) ELSE q

\* std::sort_heap(m_q.begin(), m_q.end(), min_heap_order)
RECURSIVE sort_heap_n(_, _)
sort_heap_n(q, n) == IF n > 1 THEN sort_heap_n(pop_heap_n(q, n), n - 1) ELSE q
sort_heap(q) == sort_heap_n(q, Len(q))

\* std::lower_bound(begin, end, 0, l.first > r): the first position whose
\* score is not above 0, in a sequence sorted by descending score
lower_bound_zero(q) ==
    Cardinality({i \in 1..Len(q) : \A j \in 1..i : q[j][1] > 0})

----------------------------------------------------------------------------
(* topk_queue, as a value [m_k, m_threshold, m_q] *)
topk_queue(k) == [m_k |-> k, m_threshold |-> 0, m_q |-> <<>>]

\* variants of would_enter with the comparison changed
would_enter_ge(Q, score) == score >= Q.m_threshold
would_enter_positive(Q, score) == score > 0

would_enter(Q, score) == score > Q.m_threshold

size(Q) == Len(Q.m_q)
capacity(Q) == Q.m_k
threshold(Q) == Q.m_threshold
topk(Q) == Q.m_q

\* variant of insert that evicts one entry too late
insert_admitted_late_pop(Q, score, docid) ==
    LET q1 == Append(Q.m_q, <<score, docid>>)
    IN IF Len(q1) <= Q.m_k + 1
       THEN LET q2 == push_heap(q1)
            IN [Q EXCEPT !.m_q = q2,
                         !.m_threshold = IF Len(q2) = Q.m_k
                                         THEN front(q2)[1] ELSE @]
       ELSE LET q2 == pop_back(pop_heap(q1))
            IN [Q EXCEPT !.m_q = q2, !.m_threshold = front(q2)[1]]

\* variant of insert that forgets the threshold when it evicts
insert_admitted_stale_threshold(Q, score, docid) ==
    LET q1 == Append(Q.m_q, <<score, docid>>)
    IN IF Len(q1) <= Q.m_k
       THEN LET q2 == push_heap(q1)
            IN [Q EXCEPT !.m_q = q2,
                         !.m_threshold = IF Len(q2) = Q.m_k
                                         THEN front(q2)[1] ELSE @]
       ELSE [Q EXCEPT !.m_q = pop_back(pop_heap(q1))]

\* the part of insert after the would_enter test
insert_admitted(Q, score, docid) ==
    LET q1 == Append(Q.m_q, <<score, docid>>)
    IN IF Len(q1) <= Q.m_k
       THEN LET q2 == push_heap(q1)
            IN [Q EXCEPT !.m_q = q2,
                         !.m_threshold = IF Len(q2) = Q.m_k
                                         THEN front(q2)[1] ELSE @]
       ELSE LET q2 == pop_back(pop_heap(q1))
            IN [Q EXCEPT !.m_q = q2, !.m_threshold = front(q2)[1]]

\* insert(score, docid): the queue afterwards
insert(Q, score, docid) ==
    IF ~would_enter(Q, score) THEN Q ELSE insert_admitted(Q, score, docid)

\* insert(score, docid): the value returned
insert_result(Q, score) == would_enter(Q, score)

\* which of the three paths of insert is taken
insert_branch(Q, score) ==
    IF ~would_enter(Q, score) THEN "reject"
    ELSE IF size(Q) + 1 <= Q.m_k THEN "push" ELSE "pop"

\* variant of finalize that leaves the threshold as it is
finalize_keeps_threshold(Q) ==
    LET sorted == sort_heap(Q.m_q)
    IN [Q EXCEPT !.m_q = SubSeq(sorted, 1, lower_bound_zero(sorted))]

\* variant of finalize that skips sort_heap
finalize_unsorted(Q) ==
    LET th == IF size(Q) = capacity(Q) THEN front(Q.m_q)[1] ELSE 0
    IN [Q EXCEPT !.m_threshold = th,
                 !.m_q = SubSeq(Q.m_q, 1, lower_bound_zero(Q.m_q))]

finalize(Q) ==
    LET th == IF size(Q) = capacity(Q) THEN front(Q.m_q)[1] ELSE 0
        sorted == sort_heap(Q.m_q)
    IN [Q EXCEPT !.m_threshold = th,
                 !.m_q = SubSeq(sorted, 1, lower_bound_zero(sorted))]

\* variant of clear that leaves the threshold as it is
clear_keeps_threshold(Q) == [Q EXCEPT !.m_q = <<>>]

\* variant of set_threshold without the clamp at 0
set_threshold_unclamped(Q, t) == [Q EXCEPT !.m_threshold = float32(t - Epsilon)]

set_threshold(Q, t) == [Q EXCEPT !.m_threshold = float32(Max(t - Epsilon, 0))]

clear(Q) == [Q EXCEPT !.m_q = <<>>, !.m_threshold = 0]

----------------------------------------------------------------------------
(* One queue driven through its public interface *)
Self == [m_k |-> m_k, m_threshold |-> m_threshold, m_q |-> m_q]

Store(Q) ==
    /\ m_k' = Q.m_k
    /\ m_threshold' = Q.m_threshold
    /\ m_q' = Q.m_q

NoHint == [kind |-> "none", t |-> 0]

\* a freshly constructed queue of capacity k; k is at least 1 (with
\* capacity 0 insert would read front() of an empty vector)
InitQueue(k) ==
    /\ m_k = k
    /\ m_threshold = 0
    /\ m_q = <<>>
    /\ ret = FALSE
    /\ branch = "none"
    /\ finalized = FALSE
    /\ hint = NoHint

\* no second queue
NoReplay ==
    /\ inserted = <<>>
    /\ tau = 0
    /\ seeded = topk_queue(m_k)

\* std::optional: std::nullopt, and an optional holding v
None == <<>>
Some(v) == <<v>>

\* QueryContainer::QueryContainer(): a default QueryContainerInner
QueryContainer ==
    [id |-> None, query_string |-> None, processed_terms |-> None,
     term_ids |-> None, thresholds |-> <<>>, selections |-> <<>>]

\* no query container and no request flags
NoQuery ==
    /\ m_data = QueryContainer
    /\ flags = 0
    /\ call = [op |-> "none", args |-> <<>>, error |-> "", ret |-> FALSE]

\* no query reader
NoReader ==
    reader = [m_stream_ref |-> <<>>, m_line_buf |-> <<>>, m_format |-> None,
              m_filter_functions |-> <<>>, m_map_functions |-> <<>>]

\* no live-block computation
NoLive == live = [scores |-> <<>>, threshold |-> 0]

\* global_parameters: five one-byte fields
GlobalParameters == <<9, 8, 9, 8, 7>>

\* block_freq_index(): a default index
block_freq_index ==
    [m_params |-> GlobalParameters, m_size |-> 0, m_num_docs |-> 0,
     m_endpoints |-> <<>>, m_source |-> <<>>,
     m_list_offset |-> 0, m_list_size |-> 0]

\* no index builder, no index file and a default index
NoIndex ==
    /\ builder = None
    /\ stream_builder = None
    /\ index_file = None
    /\ sq = block_freq_index
    /\ other_sq = block_freq_index

\* no cursor
NoCursor == raw_cursor = None

\* none of the other components
NoExt == NoReader /\ NoLive /\ NoIndex /\ NoCursor

\* no index and no query loop
NoLoop ==
    /\ index = <<>>
    /\ queries = <<>>
    /\ algorithm = "none"
    /\ qidx = 0
    /\ results = <<>>
    /\ cursors = <<>>
    /\ candidate = 0
    /\ steps = 0
    /\ pc = "none"

Init ==
    /\ \E k \in 1..MaxK : InitQueue(k)
    /\ NoReplay
    /\ NoLoop
    /\ NoQuery
    /\ NoExt

Insert(score, docid) ==
    /\ ~finalized
    /\ Store(insert(Self, score, docid))
    /\ ret' = insert_result(Self, score)
    /\ branch' = insert_branch(Self, score)
    /\ UNCHANGED <<finalized, hint, replay_vars, loop_vars, query_vars, ext_vars>>

SetThreshold(t) ==
    /\ ~finalized
    /\ Store(set_threshold(Self, t))
    /\ hint' = [kind |-> IF m_q = <<>> THEN "empty" ELSE "late", t |-> t]
    /\ UNCHANGED <<ret, branch, finalized, replay_vars, loop_vars, query_vars, ext_vars>>

Finalize ==
    /\ ~finalized
    /\ Store(finalize(Self))
    /\ finalized' = TRUE
    /\ UNCHANGED <<ret, branch, hint, replay_vars, loop_vars, query_vars, ext_vars>>

Clear ==
    /\ Store(clear(Self))
    /\ finalized' = FALSE
    /\ hint' = NoHint
    /\ UNCHANGED <<ret, branch, replay_vars, loop_vars, query_vars, ext_vars>>

Next ==
    \/ \E score \in Threshold, docid \in Docids : Insert(score, docid)
    \/ \E t \in Threshold : SetThreshold(t)
    \/ Finalize
    \/ Clear

Spec == Init /\ [][Next]_vars

TypeOK ==
    /\ m_k \in 1..MaxK
    /\ m_threshold \in Threshold
    /\ m_q \in Seq(Threshold \X Docids)
    /\ Len(m_q) <= m_k

----------------------------------------------------------------------------
(* Properties of the queue interface, checked under Spec *)

scores(q) == {q[i][1] : i \in 1..Len(q)}
score_seq(q) == [i \in 1..Len(q) |-> q[i][1]]
min_score(q) == CHOOSE s \in scores(q) : \A o \in scores(q) : s <= o

\* C3: after finalize(), topk() is ordered by descending score and entries
\* of equal score appear in ascending docid order.
C3_DescendingTiesByDocid ==
    finalized =>
        \A i \in 1..Len(m_q) - 1 :
            \/ m_q[i][1] > m_q[i + 1][1]
            \/ m_q[i][1] = m_q[i + 1][1] /\ m_q[i][2] <= m_q[i + 1][2]

\* C5: after each insert (with set_threshold and clear interleaved) the
\* queue stores at most k entries.
C5_SizeAtMostK == Len(m_q) <= m_k

C5_Witness == branch = "pop" /\ hint.kind = "late" /\ Len(m_q) = m_k /\ m_k >= 2

\* C6 as stated: whenever size() == k after a sequence of inserts, the
\* threshold is the smallest stored score minus the relaxation.
C6_ThresholdIsMinMinusEpsilon ==
    (~finalized /\ hint.kind = "none" /\ Len(m_q) = m_k)
        => m_threshold = min_score(m_q) - Epsilon

\* C6 amended: whenever size() == k after a sequence of inserts (with or
\* without a seed set on the empty queue), the threshold is exactly the
\* smallest stored score.
C6_ThresholdIsMin ==
    (~finalized /\ hint.kind # "late" /\ Len(m_q) = m_k)
        => m_threshold = min_score(m_q)

C6_Witness ==
    /\ ~finalized /\ hint.kind = "none" /\ branch = "pop"
    /\ Len(m_q) = m_k /\ m_k >= 2 /\ m_threshold >= Epsilon

\* C8: after set_threshold(t) on the empty queue, no stored entry ever has
\* a score at or below max(t - 0.0001, 0), and the threshold is never
\* negative.
C8_NothingAtOrBelowSeed ==
    /\ m_threshold >= 0
    /\ hint.kind = "empty" =>
          \A i \in 1..Len(m_q) : m_q[i][1] > Max(hint.t - Epsilon, 0)

C8_Witness ==
    /\ hint.kind = "empty" /\ hint.t > Epsilon /\ finalized
    /\ branch = "reject" /\ \E i \in 1..Len(m_q) : m_q[i][1] = hint.t

\* C9: would_enter(s) is s > threshold, and an insert whose score would not
\* enter returns false and changes neither the entries nor the threshold.
C9_RejectedInsertChangesNothing ==
    [][\A score \in Threshold :
          /\ would_enter(Self, score) <=> score > m_threshold
          /\ ~would_enter(Self, score) =>
                \A docid \in Docids :
                    Insert(score, docid) =>
                        /\ ret' = FALSE
                        /\ m_q' = m_q
                        /\ m_threshold' = m_threshold]_vars

C9_Witness == branch = "reject" /\ ret = FALSE /\ m_q # <<>> /\ ~finalized

\* C10: within one query (an optional seed on the empty queue, then
\* inserts) no insert lowers the threshold.
C10_InsertNeverLowersThreshold ==
    [][~(/\ hint.kind # "late"
         /\ m_threshold' < m_threshold
         /\ \E score \in Threshold, docid \in Docids :
                Insert(score, docid))]_vars

C10_Witness ==
    /\ hint.kind = "empty" /\ hint.t > Epsilon /\ branch = "pop"
    /\ ~finalized /\ m_threshold > hint.t

\* C11: finalize() leaves the threshold at the smallest kept score when the
\* queue held exactly k entries and at 0 otherwise, whatever set_threshold
\* stored before.
C11_FinalizeSetsThreshold ==
    [][Finalize =>
          m_threshold' = IF Len(m_q) = m_k THEN min_score(m_q') ELSE 0]_vars

C11_Witness ==
    /\ finalized /\ hint.kind = "late" /\ m_k = 2
    /\ score_seq(m_q) = <<8, 4>> /\ m_threshold = 4

\* the value set_threshold(t) stores
stored_hint(t) == float32(Max(t - Epsilon, 0))

----------------------------------------------------------------------------
(* The same inserts offered to an unseeded queue and to one seeded with   *)
(* set_threshold(tau); docids are the positions of the inserts            *)
MaxInserts == 5

InitSeeded ==
    /\ \E k \in 1..MaxQueryK : InitQueue(k)
    /\ inserted = <<>>
    /\ tau \in Threshold
    /\ seeded = set_threshold(topk_queue(m_k), tau)
    /\ NoLoop
    /\ NoQuery
    /\ NoExt

Offer(score) ==
    /\ ~finalized
    /\ Len(inserted) < MaxInserts
    /\ LET docid == Len(inserted)
       IN /\ Store(insert(Self, score, docid))
          /\ ret' = insert_result(Self, score)
          /\ branch' = insert_branch(Self, score)
          /\ seeded' = insert(seeded, score, docid)
          /\ inserted' = Append(inserted, <<score, docid>>)
    /\ UNCHANGED <<finalized, hint, tau, loop_vars, query_vars, ext_vars>>

FinalizeBoth ==
    /\ ~finalized
    /\ Store(finalize(Self))
    /\ seeded' = finalize(seeded)
    /\ finalized' = TRUE
    /\ UNCHANGED <<ret, branch, hint, inserted, tau, loop_vars, query_vars, ext_vars>>

NextSeeded ==
    \/ \E score \in Threshold \ {0} : Offer(score)
    \/ FinalizeBoth

SpecSeeded == InitSeeded /\ [][NextSeeded]_vars

count(s, v) == Cardinality({i \in 1..Len(s) : s[i] = v})
descending(s) == \A i \in 1..Len(s) - 1 : s[i] >= s[i + 1]
entries(q) == {q[i] : i \in 1..Len(q)}

\* C4: from threshold 0, after n inserts of positive scores and finalize(),
\* the scores of topk() are the min(k, n) largest inserted scores as a
\* multiset, in descending order.
C4_TopkScoresAreLargest ==
    finalized =>
        LET r == score_seq(m_q)
            all == score_seq(inserted)
        IN /\ Len(r) = Min(m_k, Len(all))
           /\ descending(r)
           /\ \A v \in Threshold :
                 /\ count(r, v) <= count(all, v)
                 /\ count(r, v) < count(all, v) => \A i \in 1..Len(r) : v <= r[i]

C4_Witness ==
    /\ finalized /\ m_k = 2
    /\ score_seq(inserted) = <<4, 2, 3, 1, 8>>
    /\ score_seq(m_q) = <<8, 4>>

\* C7: when the unseeded top-k is non-empty and 0 <= tau <= its smallest
\* score, the queue seeded with set_threshold(tau) and fed the same inserts
\* ends with the same set of (score, docid) entries.
C7_SeedKeepsResultSet ==
    (finalized /\ m_q # <<>> /\ tau <= min_score(m_q))
        => entries(seeded.m_q) = entries(m_q)

----------------------------------------------------------------------------
(* The ranked query loops.  An index holds one posting list per term; the *)
(* ranker is the identity on the frequency, so every score is positive.   *)
NumDocs == 6

\* a posting list holds at most half of the collection
MaxListLen == NumDocs \div 2

Terms == {0, 1}

RECURSIVE ascending(_)
ascending(D) ==
    IF D = {} THEN <<>>
    ELSE LET m == CHOOSE x \in D : \A y \in D : x <= y
         IN <<m>> \o ascending(D \ {m})

\* the frequencies of a collection: all 1, or 1 and 2 in turn
freq_of(pattern, t, d) == IF pattern = "unit" THEN 1 ELSE 1 + ((d + t) % 2)

posting_list(D, t, pattern) ==
    LET docs == ascending(D)
    IN [i \in 1..Len(docs) |-> <<docs[i], freq_of(pattern, t, docs[i])>>]

DocSets ==
    {D \in SUBSET (0..NumDocs - 1) : Cardinality(D) \in 1..MaxListLen}

QueryLists == { << <<0, 1>> >>, << <<1>>, <<0, 1>> >> }

terms_of(query) == {query[i] : i \in 1..Len(query)}

(* scored cursor over one posting list: a position, exhausted past the end *)
cursor_docid(list, pos) == IF pos > Len(list) THEN NumDocs ELSE list[pos][1]
cursor_score(list, pos) == list[pos][2]
cursor_next(list, pos) == IF pos > Len(list) THEN pos ELSE pos + 1

RECURSIVE cursor_next_geq(_, _, _)
cursor_next_geq(list, pos, target) ==
    IF cursor_docid(list, pos) < target
    THEN cursor_next_geq(list, pos + 1, target)
    ELSE pos

make_scored_cursors(query) == [t \in terms_of(query) |-> 1]

\* score += cursor.score() over the cursors in ts, in float arithmetic
RECURSIVE sum_scores(_, _, _, _)
sum_scores(lists, cur, ts, acc) ==
    IF ts = {} THEN acc
    ELSE LET t == CHOOSE x \in ts : \A y \in ts : x <= y
         IN sum_scores(lists, cur, ts \ {t},
                       float32(acc + cursor_score(lists[t], cur[t])))

docids_at(lists, cur) == {cursor_docid(lists[t], cur[t]) : t \in DOMAIN cur}

\* the smallest current docid, the sentinel when there is no cursor
or_next_doc(lists, cur) ==
    IF DOMAIN cur = {} THEN NumDocs
    ELSE CHOOSE d \in docids_at(lists, cur) :
            \A e \in docids_at(lists, cur) : d <= e

\* one document of the disjunction: score it, offer it, advance its cursors
or_step(lists, cur, Q) ==
    LET d == or_next_doc(lists, cur)
        at == {t \in DOMAIN cur : cursor_docid(lists[t], cur[t]) = d}
        score == sum_scores(lists, cur, at, 0)
    IN [cur |-> [t \in DOMAIN cur |->
                   IF t \in at THEN cursor_next(lists[t], cur[t]) ELSE cur[t]],
        Q |-> insert(Q, score, d),
        offered |-> <<score>>]

or_done(lists, cur) == or_next_doc(lists, cur) >= NumDocs

RECURSIVE or_loop(_, _, _)
or_loop(lists, cur, Q) ==
    IF or_done(lists, cur) THEN Q
    ELSE LET s == or_step(lists, cur, Q) IN or_loop(lists, s.cur, s.Q)

\* ranked_or_query::operator() followed by topk()
ranked_or_query(lists, query, k) ==
    topk(finalize(or_loop(lists, make_scored_cursors(query),
                          clear(topk_queue(k)))))

\* the term with the shortest posting list
shortest(lists, ts) ==
    CHOOSE t \in ts : \A u \in ts :
        \/ Len(lists[t]) < Len(lists[u])
        \/ Len(lists[t]) = Len(lists[u]) /\ t <= u

\* one round of the conjunction: align every cursor on the pivot; on a
\* disagreement the pivot becomes the largest docid, otherwise the
\* document is scored and offered and the pivot cursor moves on by one
and_step(lists, cur, cand, Q) ==
    LET c1 == [t \in DOMAIN cur |-> cursor_next_geq(lists[t], cur[t], cand)]
        ds == docids_at(lists, c1)
    IN IF \E d \in ds : d # cand
       THEN [cur |-> c1, Q |-> Q, offered |-> <<>>,
             candidate |-> CHOOSE d \in ds : \A e \in ds : d >= e]
       ELSE IF cand < NumDocs
       THEN LET p == shortest(lists, DOMAIN cur)
                c2 == [c1 EXCEPT ![p] = cursor_next(lists[p], c1[p])]
                score == sum_scores(lists, c1, DOMAIN cur, 0)
            IN [cur |-> c2,
                Q |-> insert(Q, score, cand),
                offered |-> <<score>>,
                candidate |-> cursor_docid(lists[p], c2[p])]
       ELSE [cur |-> c1, Q |-> Q, offered |-> <<>>, candidate |-> cand]

and_done(lists, cur) ==
    \/ DOMAIN cur = {}
    \/ LET p == shortest(lists, DOMAIN cur)
       IN cursor_docid(lists[p], cur[p]) >= NumDocs

\* query_loop before its first query, with run = ranked_or_query(k) or
\* run = ranked_and_query(k)
InitLoop(algo) ==
    /\ \E k \in 1..MaxQueryK : InitQueue(k)
    /\ NoReplay
    /\ \E D0 \in DocSets, D1 \in DocSets, pattern \in {"unit", "mixed"} :
          index = [t \in Terms |->
                     posting_list(IF t = 0 THEN D0 ELSE D1, t, pattern)]
    /\ queries \in QueryLists
    /\ algorithm = algo
    /\ qidx = 0
    /\ results = <<>>
    /\ cursors = <<>>
    /\ candidate = 0
    /\ steps = 0
    /\ pc = "loop"
    /\ NoQuery
    /\ NoExt

InitRankedOr == InitLoop("or")
InitRankedAnd == InitLoop("and")

\* query_loop: the next query, its cursors, and the start of run(...)
StartQuery ==
    /\ pc = "loop"
    /\ qidx < Len(queries)
    /\ LET cur == make_scored_cursors(queries[qidx + 1])
       IN /\ cursors' = cur
          /\ candidate' =
                IF algorithm = "and"
                THEN LET p == shortest(index, DOMAIN cur)
                     IN cursor_docid(index[p], cur[p])
                ELSE 0
    /\ Store(clear(Self))
    /\ finalized' = FALSE
    /\ hint' = NoHint
    /\ steps' = 0
    /\ pc' = "run"
    /\ UNCHANGED <<ret, branch, replay_vars, index, queries, algorithm,
                   qidx, results, query_vars, ext_vars>>

\* what the insert of a step returned, if the step offered a score
Offered(offered) ==
    IF offered = <<>> THEN UNCHANGED <<ret, branch>>
    ELSE /\ ret' = insert_result(Self, offered[1])
         /\ branch' = insert_branch(Self, offered[1])

OrStep ==
    /\ pc = "run"
    /\ algorithm = "or"
    /\ ~or_done(index, cursors)
    /\ LET s == or_step(index, cursors, Self)
       IN /\ cursors' = s.cur
          /\ Store(s.Q)
          /\ Offered(s.offered)
    /\ steps' = steps + 1
    /\ UNCHANGED <<finalized, hint, replay_vars, index, queries,
                   algorithm, qidx, results, candidate, pc, query_vars, ext_vars>>

AndStep ==
    /\ pc = "run"
    /\ algorithm = "and"
    /\ ~and_done(index, cursors)
    /\ LET s == and_step(index, cursors, candidate, Self)
       IN /\ cursors' = s.cur
          /\ candidate' = s.candidate
          /\ Store(s.Q)
          /\ Offered(s.offered)
    /\ steps' = steps + 1
    /\ UNCHANGED <<finalized, hint, replay_vars, index, queries,
                   algorithm, qidx, results, pc, query_vars, ext_vars>>

\* the end of run(...): finalize, then results[qidx] = run.topk()
FinishQuery ==
    /\ pc = "run"
    /\ IF algorithm = "or" THEN or_done(index, cursors)
                            ELSE and_done(index, cursors)
    /\ Store(finalize(Self))
    /\ finalized' = TRUE
    /\ results' = Append(results, topk(finalize(Self)))
    /\ qidx' = qidx + 1
    /\ pc' = "loop"
    /\ UNCHANGED <<ret, branch, hint, replay_vars, index, queries, algorithm,
                   cursors, candidate, steps, query_vars, ext_vars>>

NextRankedOr ==
    \/ StartQuery
    \/ OrStep
    \/ FinishQuery

NextRankedAnd ==
    \/ StartQuery
    \/ AndStep
    \/ FinishQuery

SpecRankedOr == InitRankedOr /\ [][NextRankedOr]_vars
SpecRankedAnd == InitRankedAnd /\ [][NextRankedAnd]_vars

----------------------------------------------------------------------------
(* What the ranked loops must return *)

docs_of(list) == {list[i][1] : i \in 1..Len(list)}
freq_in(list, d) == LET i == CHOOSE j \in 1..Len(list) : list[j][1] = d IN list[i][2]
any_docs(lists, ts) == UNION {docs_of(lists[t]) : t \in ts}
all_docs(lists, ts) == {d \in any_docs(lists, ts) : \A t \in ts : d \in docs_of(lists[t])}

RECURSIVE total_score(_, _, _)
total_score(lists, ts, d) ==
    IF ts = {} THEN 0
    ELSE LET t == CHOOSE x \in ts : TRUE
         IN (IF d \in docs_of(lists[t]) THEN freq_in(lists[t], d) ELSE 0)
            + total_score(lists, ts \ {t}, d)

\* r holds k of the documents of docs (all of them when there are fewer),
\* each once and with its total score, no document left out scores more
\* than one that is in, and r is in descending order of score
is_top_k(r, lists, ts, docs, k) ==
    /\ Len(r) = Min(k, Cardinality(docs))
    /\ \A i \in 1..Len(r) :
          /\ r[i][2] \in docs
          /\ r[i][1] = total_score(lists, ts, r[i][2])
    /\ \A i, j \in 1..Len(r) : i # j => r[i][2] # r[j][2]
    /\ descending(score_seq(r))
    /\ \A d \in docs \ {r[i][2] : i \in 1..Len(r)} :
          \A i \in 1..Len(r) : total_score(lists, ts, d) <= r[i][1]

\* the lists cut down to the documents that every term of the query has
restricted(lists, ts) ==
    LET common == all_docs(lists, ts)
    IN [t \in DOMAIN lists |-> SelectSeq(lists[t], LAMBDA e : e[1] \in common)]

\* C1: the ranked-OR loop returns, for every query, the k highest-scoring
\* documents among those in at least one queried list, each with the sum of
\* its per-term scores (checked when the result of a query is stored).
C1_OrReturnsTopK ==
    (algorithm = "or" /\ pc = "loop" /\ qidx > 0) =>
        /\ Len(results) = qidx
        /\ is_top_k(results[qidx], index, terms_of(queries[qidx]),
                    any_docs(index, terms_of(queries[qidx])), m_k)

C1_Witness ==
    /\ algorithm = "or" /\ pc = "loop" /\ m_k = 3
    /\ docs_of(index[0]) = {1, 3, 5} /\ docs_of(index[1]) = {2, 3, 4}
    /\ queries = << <<0, 1>> >>
    /\ Len(results) = 1
    /\ score_seq(results[1]) = <<2, 1, 1>>
    /\ results[1][1][2] = 3

\* C2: the ranked-AND loop stops with the cursor of the shortest list
\* exhausted, after a bounded number of rounds, and returns what ranked OR
\* returns over the documents present in every queried list (checked when
\* the result of a query is stored).
C2_AndReturnsOrOfCommonDocs ==
    (algorithm = "and" /\ pc = "loop" /\ qidx > 0) =>
        LET ts == terms_of(queries[qidx])
        IN /\ and_done(index, cursors)
           /\ steps <= Len(index[0]) + Len(index[1]) + 1
           /\ Len(results) = qidx
           /\ results[qidx] = ranked_or_query(restricted(index, ts),
                                              queries[qidx], m_k)
           /\ is_top_k(results[qidx], index, ts, all_docs(index, ts), m_k)

C2_Witness ==
    /\ algorithm = "and" /\ pc = "loop" /\ m_k = 3
    /\ index = [t \in Terms |-> posting_list(IF t = 0 THEN {1, 3, 5} ELSE {2, 3, 4}, t, "unit")]
    /\ queries = << <<0, 1>> >>
    /\ results = << << <<2, 3>> >> >>

----------------------------------------------------------------------------
(* Request flags (src/query.cpp).  A RequestFlagSet is its flags word; the *)
(* three flags are the bits 1, 2 and 4.                                    *)
FlagThreshold == 1
FlagWeights == 2
FlagSelection == 4
RequestFlag == {FlagThreshold, FlagWeights, FlagSelection}
RequestFlagSet == 0..7

\* bitwise operations on unsigned words
RECURSIVE bit_or(_, _)
bit_or(x, y) ==
    IF x = 0 THEN y
    ELSE IF y = 0 THEN x
    ELSE Max(x % 2, y % 2) + 2 * bit_or(x \div 2, y \div 2)

RECURSIVE bit_and(_, _)
bit_and(x, y) ==
    IF x = 0 \/ y = 0 THEN 0
    ELSE Min(x % 2, y % 2) + 2 * bit_and(x \div 2, y \div 2)

RECURSIVE bit_xor(_, _)
bit_xor(x, y) ==
    IF x = 0 THEN y
    ELSE IF y = 0 THEN x
    ELSE ((x + y) % 2) + 2 * bit_xor(x \div 2, y \div 2)

\* RequestFlagSet::remove(flag): the flags word afterwards
remove(s, flag) == bit_xor(s, flag)

\* RequestFlagSet::operator^(flag)
flagset_xor(s, flag) == bit_xor(s, flag)

\* RequestFlagSet::contains(flag)
contains(s, flag) == bit_and(s, flag) = flag

\* operator|(RequestFlag lhs, RequestFlag rhs)
flag_or(lhs, rhs) == bit_or(lhs, lhs)

\* operator&(RequestFlag lhs, RequestFlag rhs)
flag_and(lhs, rhs) == bit_and(lhs, lhs)

\* operator|(RequestFlagSet lhs, RequestFlag rhs)
flagset_or(lhs, rhs) == bit_or(lhs, rhs)

\* operator&(RequestFlagSet lhs, RequestFlag rhs)
flagset_and(lhs, rhs) == bit_and(lhs, rhs)

FlagCall(op, lhs, rhs, r) ==
    [op |-> op, lhs |-> lhs, rhs |-> rhs, error |-> "", ret |-> r]

InitFlags ==
    /\ InitQueue(1)
    /\ NoReplay
    /\ NoLoop
    /\ NoQuery
    /\ NoExt

\* flags = lhs | rhs
FlagOr(lhs, rhs) ==
    /\ flags' = flag_or(lhs, rhs)
    /\ call' = FlagCall("flag_or", lhs, rhs, flag_or(lhs, rhs))
    /\ UNCHANGED <<queue_vars, replay_vars, loop_vars, m_data, ext_vars>>

\* flags = lhs & rhs
FlagAnd(lhs, rhs) ==
    /\ flags' = flag_and(lhs, rhs)
    /\ call' = FlagCall("flag_and", lhs, rhs, flag_and(lhs, rhs))
    /\ UNCHANGED <<queue_vars, replay_vars, loop_vars, m_data, ext_vars>>

\* flags |= rhs
FlagSetOrAssign(rhs) ==
    /\ flags' = flagset_or(flags, rhs)
    /\ call' = FlagCall("flagset_or", flags, rhs, flagset_or(flags, rhs))
    /\ UNCHANGED <<queue_vars, replay_vars, loop_vars, m_data, ext_vars>>

\* flags &= rhs
FlagSetAndAssign(rhs) ==
    /\ flags' = flagset_and(flags, rhs)
    /\ call' = FlagCall("flagset_and", flags, rhs, flagset_and(flags, rhs))
    /\ UNCHANGED <<queue_vars, replay_vars, loop_vars, m_data, ext_vars>>

\* flags.remove(flag)
FlagSetRemove(flag) ==
    /\ flags' = remove(flags, flag)
    /\ call' = FlagCall("remove", flags, flag, remove(flags, flag))
    /\ UNCHANGED <<queue_vars, replay_vars, loop_vars, m_data, ext_vars>>

\* flags ^ flag, the set itself left as it is
FlagSetXor(flag) ==
    /\ call' = FlagCall("flagset_xor", flags, flag, flagset_xor(flags, flag))
    /\ UNCHANGED <<queue_vars, replay_vars, loop_vars, m_data, flags, ext_vars>>

NextFlags ==
    \/ \E lhs \in RequestFlag, rhs \in RequestFlag : FlagOr(lhs, rhs)
    \/ \E lhs \in RequestFlag, rhs \in RequestFlag : FlagAnd(lhs, rhs)
    \/ \E rhs \in RequestFlag : FlagSetOrAssign(rhs)
    \/ \E rhs \in RequestFlag : FlagSetAndAssign(rhs)
    \/ \E flag \in RequestFlag : FlagSetRemove(flag)
    \/ \E flag \in RequestFlag : FlagSetXor(flag)

SpecFlags == InitFlags /\ [][NextFlags]_vars

\* C15: for any two request flags a and b, a | b contains both a and b and
\* is their bitwise OR, and a & b holds exactly the bits common to a and b.
C15_FlagOperatorsCombineBothOperands ==
    /\ call.op = "flag_or" =>
          /\ contains(call.ret, call.lhs)
          /\ contains(call.ret, call.rhs)
          /\ call.ret = bit_or(call.lhs, call.rhs)
    /\ call.op = "flag_and" =>
          \A f \in RequestFlag :
              contains(call.ret, f) <=>
                  (contains(call.lhs, f) /\ contains(call.rhs, f))

----------------------------------------------------------------------------
(* The query container and the query request (src/query.cpp).  A string is *)
(* a sequence of characters, an optional is None or Some(v), a pair vector *)
(* is a sequence of <<k, value>>.  Term positions stay below 32, so the    *)
(* shifts of to_json do not overflow.                                      *)
MaxTerms == 3

TermIds == {0, 1}
Ks == {10, 20}

\* Selection<T>
Selection(terms, pairs) == [selected_terms |-> terms, selected_pairs |-> pairs]

\* the outcome of a call: the error raised ("" when none), the container
\* afterwards and the value returned
Result(error, data, r) == [error |-> error, data |-> data, ret |-> r]

elements(v) == {v[i] : i \in 1..Len(v)}

\* std::find_if(v.begin(), v.end(), first_equal_to(k)): the index of the
\* first entry whose key is k, 0 for end()
find_if(v, k) ==
    IF \E i \in 1..Len(v) : v[i][1] = k
    THEN CHOOSE i \in 1..Len(v) :
            v[i][1] = k /\ \A j \in 1..i - 1 : v[j][1] # k
    ELSE 0

\* QueryContainer::threshold(k)
QueryContainer_threshold(data, k) ==
    LET pos == find_if(data.thresholds, k)
    IN IF pos = 0 THEN None ELSE Some(data.thresholds[pos][2])

\* QueryContainer::selection(k)
QueryContainer_selection(data, k) ==
    LET pos == find_if(data.selections, k)
    IN IF pos = 0 THEN None ELSE Some(data.selections[pos][2])

\* QueryContainer::raw(query_string)
raw(query_string) == [QueryContainer EXCEPT !.query_string = Some(query_string)]

\* a term processor: "none" for no processor, "stop_b" for one that lets
\* every term through but b
process(term_processor, term) ==
    IF term_processor = "stop_b" /\ term = <<"b">> THEN None ELSE Some(term)

\* QueryContainer::from_terms(terms, term_processor)
RECURSIVE from_terms_loop(_, _, _)
from_terms_loop(terms, term_processor, processed_terms) ==
    IF terms = <<>> THEN processed_terms
    ELSE from_terms_loop(Tail(terms), term_processor,
                         processed_terms \o process(term_processor, Head(terms)))

from_terms(terms, term_processor) ==
    [QueryContainer EXCEPT
        !.processed_terms = Some(from_terms_loop(terms, term_processor, <<>>))]

\* QueryContainer::from_term_ids(term_ids)
from_term_ids(term_ids) == [QueryContainer EXCEPT !.term_ids = Some(term_ids)]

\* std::find(line.begin(), line.end(), ':'): the index of the first colon,
\* Len(line) + 1 for end()
find_colon(line) ==
    IF \E i \in 1..Len(line) : line[i] = ":"
    THEN CHOOSE i \in 1..Len(line) :
            line[i] = ":" /\ \A j \in 1..i - 1 : line[j] # ":"
    ELSE Len(line) + 1

\* QueryContainer::from_colon_format(line)
from_colon_format(line) ==
    LET pos == find_colon(line)
    IN IF pos = Len(line) + 1
       THEN [QueryContainer EXCEPT !.query_string = Some(line)]
       ELSE [QueryContainer EXCEPT
                !.id = Some(SubSeq(line, 1, pos - 1)),
                !.query_string = Some(SubSeq(line, pos + 1, Len(line)))]

\* a ParseFn: every letter of the text is a term, a has id 0 and b has id 1
parse_fn(text) ==
    LET letters == SelectSeq(text, LAMBDA c : c # " ")
    IN [i \in 1..Len(letters) |->
           [term |-> <<letters[i]>>, id |-> IF letters[i] = "a" THEN 0 ELSE 1]]

\* QueryContainer::parse(parse_fn)
parse(data) ==
    IF data.query_string = None
    THEN Result("domain_error", data, FALSE)
    ELSE LET parsed_terms == parse_fn(data.query_string[1])
         IN Result("",
                [data EXCEPT
                    !.term_ids = Some([i \in 1..Len(parsed_terms) |-> parsed_terms[i].id]),
                    !.processed_terms =
                        Some([i \in 1..Len(parsed_terms) |-> parsed_terms[i].term])],
                FALSE)

\* variant of add_threshold that never looks for an entry of k
add_threshold_append(data, k, score) ==
    Result("", [data EXCEPT !.thresholds = Append(@, <<k, score>>)], FALSE)

\* QueryContainer::add_threshold(k, score)
add_threshold(data, k, score) ==
    LET pos == find_if(data.thresholds, k)
    IN IF pos # 0
       THEN Result("", [data EXCEPT !.thresholds[pos] = <<k, score>>], TRUE)
       ELSE Result("", [data EXCEPT !.thresholds = Append(@, <<k, score>>)], FALSE)

\* QueryContainer::add_selection(k, selection)
add_selection(data, k, selection) ==
    LET pos == find_if(data.selections, k)
    IN IF pos # 0
       THEN Result("", [data EXCEPT !.selections[pos] = <<k, selection>>], TRUE)
       ELSE Result("", [data EXCEPT !.selections = Append(@, <<k, selection>>)], FALSE)

\* what the build decides where filter_terms leaves it open: the content
\* of a moved-from string ("empty" or "kept"), and a read past the end of
\* term_ids ("abort", or "garbage" with the value read)
FilterBuilds ==
    [moved : {"empty", "kept"}, past_end : {"abort", "garbage"}, garbage : TermIds]

\* the loop of filter_terms: terms and ids are the vectors of the container
\* (terms loses the strings moved out of it), position by position
RECURSIVE filter_terms_loop(_, _, _, _, _, _, _)
filter_terms_loop(terms, ids, query_length, term_positions, filtered_terms, filtered_ids, build) ==
    IF term_positions = <<>>
    THEN [error |-> "", terms |-> terms,
          filtered_terms |-> filtered_terms, filtered_ids |-> filtered_ids]
    ELSE LET position == Head(term_positions)
         IN IF position >= query_length
            THEN [error |-> "out_of_range", terms |-> terms,
                  filtered_terms |-> filtered_terms, filtered_ids |-> filtered_ids]
            ELSE IF ids # None /\ position >= Len(ids[1]) /\ build.past_end = "abort"
            THEN [error |-> "abort", terms |-> terms,
                  filtered_terms |-> filtered_terms, filtered_ids |-> filtered_ids]
            ELSE filter_terms_loop(
                    IF terms = None \/ build.moved = "kept" THEN terms
                    ELSE Some([terms[1] EXCEPT ![position + 1] = <<>>]),
                    ids, query_length, Tail(term_positions),
                    IF terms = None THEN filtered_terms
                    ELSE Append(filtered_terms, terms[1][position + 1]),
                    IF ids = None THEN filtered_ids
                    ELSE Append(filtered_ids,
                                IF position >= Len(ids[1]) THEN build.garbage
                                ELSE ids[1][position + 1]),
                    build)

\* QueryContainer::filter_terms(term_positions) under one build
filter_terms_under(data, term_positions, build) ==
    IF data.processed_terms = None /\ data.term_ids = None
    THEN Result("", data, FALSE)
    ELSE LET query_length ==
                 IF data.processed_terms # None THEN Len(data.processed_terms[1])
                 ELSE Len(data.term_ids[1])
             l == filter_terms_loop(data.processed_terms, data.term_ids,
                                    query_length, term_positions, <<>>, <<>>, build)
         IN IF l.error # ""
            THEN Result(l.error, [data EXCEPT !.processed_terms = l.terms], FALSE)
            ELSE Result("",
                    [data EXCEPT
                        !.processed_terms =
                            IF @ = None THEN None ELSE Some(l.filtered_terms),
                        !.term_ids =
                            IF @ = None THEN None ELSE Some(l.filtered_ids)],
                    FALSE)

\* QueryContainer::filter_terms(term_positions): every outcome
filter_terms(data, term_positions) ==
    {filter_terms_under(data, term_positions, build) : build \in FilterBuilds}

\* variant of count_of that counts every term once
count_of_once(v, x) == 1

count_of(v, x) == Cardinality({i \in 1..Len(v) : v[i] = x})

\* lexicographic order of TermPair
pair_less(a, b) == a[1] < b[1] \/ (a[1] = b[1] /\ a[2] < b[2])

\* ranges::sort followed by erase(ranges::unique(...)) on pairs
RECURSIVE sort_unique_pairs(_)
sort_unique_pairs(P) ==
    IF P = {} THEN <<>>
    ELSE LET m == CHOOSE x \in P : \A y \in P \ {x} : pair_less(x, y)
         IN <<m>> \o sort_unique_pairs(P \ {m})

\* std::sort on a vector of numbers
RECURSIVE std_sort(_)
std_sort(v) ==
    IF v = <<>> THEN <<>>
    ELSE LET m == CHOOSE x \in elements(v) : \A y \in elements(v) : x <= y
             i == CHOOSE j \in 1..Len(v) : v[j] = m
         IN <<m>> \o std_sort(SubSeq(v, 1, i - 1) \o SubSeq(v, i + 1, Len(v)))

\* variant of sort_unique that keeps the duplicates
sort_with_duplicates(v) == std_sort(v)

\* ranges::sort followed by erase(ranges::unique(...)) on term ids
sort_unique(v) == ascending(elements(v))

NoRequest == [k |-> 0, term_ids |-> <<>>, term_weights |-> <<>>,
              threshold |-> None, selection |-> None]

\* QueryRequest::QueryRequest(data, k, flags), that is data.query(k, flags):
\* the error raised and the request built
QueryRequest(data, k, request_flags) ==
    IF data.term_ids = None
    THEN [error |-> "domain_error", request |-> NoRequest]
    ELSE LET term_ids == data.term_ids[1]
             m_term_ids == ascending(elements(term_ids))
             counts == [i \in 1..Len(m_term_ids) |-> count_of(term_ids, m_term_ids[i])]
             selection == QueryContainer_selection(data, k)
             selecting == selection # None /\ contains(request_flags, FlagSelection)
             at_fails ==
                 /\ selecting
                 /\ \/ \E p \in elements(selection[1].selected_terms) :
                          p >= Len(term_ids)
                    \/ \E pp \in elements(selection[1].selected_pairs) :
                          pp[1] >= Len(term_ids) \/ pp[2] >= Len(term_ids)
             selected_terms ==
                 [i \in 1..Len(selection[1].selected_terms) |->
                     term_ids[selection[1].selected_terms[i] + 1]]
             selected_pairs ==
                 [i \in 1..Len(selection[1].selected_pairs) |->
                     <<term_ids[selection[1].selected_pairs[i][1] + 1],
                       term_ids[selection[1].selected_pairs[i][2] + 1]>>]
         IN IF at_fails
            THEN [error |-> "out_of_range", request |-> NoRequest]
            ELSE [error |-> "",
                  request |->
                     [k |-> k,
                      term_ids |-> m_term_ids,
                      term_weights |->
                         IF contains(request_flags, FlagWeights) THEN counts
                         ELSE [i \in 1..Len(counts) |-> 1],
                      threshold |->
                         IF contains(request_flags, FlagThreshold)
                         THEN QueryContainer_threshold(data, k) ELSE None,
                      selection |->
                         IF selecting
                         THEN Some(Selection(sort_unique(selected_terms),
                                             sort_unique_pairs(elements(selected_pairs))))
                         ELSE None]]

(* JSON: an object is a record of optional fields; thresholds is a list of *)
(* [k, score] objects and selections a list of [k, intersections] objects. *)
(* Numbers are doubles, so a float score widens exactly on the way out and *)
(* is rounded by float32 on the way in.                                    *)
Json(id, query, terms, term_ids, thresholds, selections) ==
    [id |-> id, query |-> query, terms |-> terms, term_ids |-> term_ids,
     thresholds |-> thresholds, selections |-> selections]

\* the masks to_json writes for one selection, before sorting
intersections_of(selection) ==
    [i \in 1..Len(selection.selected_terms) |-> 2 ^ selection.selected_terms[i]]
    \o [i \in 1..Len(selection.selected_pairs) |->
           bit_or(2 ^ selection.selected_pairs[i][1],
                  2 ^ selection.selected_pairs[i][2])]

\* QueryContainer::to_json()
to_json(data) ==
    Json(data.id, data.query_string, data.processed_terms, data.term_ids,
         IF data.thresholds = <<>> THEN None
         ELSE Some([i \in 1..Len(data.thresholds) |->
                       [k |-> data.thresholds[i][1],
                        score |-> data.thresholds[i][2]]]),
         IF data.selections = <<>> THEN None
         ELSE Some([i \in 1..Len(data.selections) |->
                       [k |-> data.selections[i][1],
                        intersections |->
                           std_sort(intersections_of(data.selections[i][2]))]]))

\* std::bitset<64>: count(), test(pos), reset(pos)
RECURSIVE bitset_count(_)
bitset_count(m) == IF m = 0 THEN 0 ELSE (m % 2) + bitset_count(m \div 2)
bitset_test(m, pos) == (m \div (2 ^ pos)) % 2 = 1
bitset_reset(m, pos) == m - 2 ^ pos

\* the while loop of from_json over one mask: term_positions is the array
\* of two positions, out the number of positions written; past_end tells
\* that a third position was written past the end of the array
RECURSIVE decode_loop(_, _, _, _)
decode_loop(m, pos, term_positions, out) ==
    IF bitset_count(m) = 0
    THEN [term_positions |-> term_positions, out |-> out, past_end |-> FALSE]
    ELSE IF bitset_test(m, pos)
    THEN IF out = 2
         THEN [term_positions |-> term_positions, out |-> out, past_end |-> TRUE]
         ELSE decode_loop(bitset_reset(m, pos), pos + 1,
                          [term_positions EXCEPT ![out + 1] = pos], out + 1)
    ELSE decode_loop(m, pos + 1, term_positions, out)

\* what the build makes of a write past the end of term_positions: the
\* process ends ("abort"); or the write lands in the stack, and then either
\* the loop runs off the bitset, whose test throws ("out_of_range"), or out
\* is left past end() and the mask counts as a single term at its lowest
\* position ("lowest")
JsonBuilds == {"abort", "out_of_range", "lowest"}

\* variant of decode_masks that takes every mask for a single term
RECURSIVE decode_masks_terms_only(_, _, _, _)
decode_masks_terms_only(masks, selected_terms, selected_pairs, build) ==
    IF masks = <<>>
    THEN [error |-> "", selection |-> Selection(selected_terms, selected_pairs)]
    ELSE LET d == decode_loop(Head(masks), 0, <<0, 0>>, 0)
         IN decode_masks_terms_only(Tail(masks),
                                    Append(selected_terms, d.term_positions[1]),
                                    selected_pairs, build)

\* the for loop of from_json over the masks of one selection
RECURSIVE decode_masks(_, _, _, _)
decode_masks(masks, selected_terms, selected_pairs, build) ==
    IF masks = <<>>
    THEN [error |-> "", selection |-> Selection(selected_terms, selected_pairs)]
    ELSE LET d == decode_loop(Head(masks), 0, <<0, 0>>, 0)
         IN IF d.past_end /\ build # "lowest"
            THEN [error |-> build, selection |-> Selection(<<>>, <<>>)]
            ELSE IF d.out = 2 /\ ~d.past_end
            THEN decode_masks(Tail(masks), selected_terms,
                              Append(selected_pairs, d.term_positions), build)
            ELSE decode_masks(Tail(masks),
                              Append(selected_terms, d.term_positions[1]),
                              selected_pairs, build)

\* the selections of a JSON object, entry by entry
RECURSIVE decode_selections(_, _, _)
decode_selections(json_entries, selections, build) ==
    IF json_entries = <<>> THEN [error |-> "", selections |-> selections]
    ELSE LET d == decode_masks(Head(json_entries).intersections, <<>>, <<>>, build)
         IN IF d.error # "" THEN [error |-> d.error, selections |-> selections]
            ELSE decode_selections(Tail(json_entries),
                    Append(selections, <<Head(json_entries).k, d.selection>>), build)

\* variant of from_json that does not ask for query, terms or term_ids
from_json_unchecked(json, build) ==
    LET thresholds ==
            IF json.thresholds = None THEN <<>>
            ELSE [i \in 1..Len(json.thresholds[1]) |->
                     <<json.thresholds[1][i].k, float32(json.thresholds[1][i].score)>>]
        s == IF json.selections = None THEN [error |-> "", selections |-> <<>>]
             ELSE decode_selections(json.selections[1], <<>>, build)
    IN IF s.error # "" THEN Result(s.error, QueryContainer, FALSE)
       ELSE Result("",
               [id |-> json.id, query_string |-> json.query,
                processed_terms |-> json.terms, term_ids |-> json.term_ids,
                thresholds |-> thresholds, selections |-> s.selections],
               FALSE)

\* QueryContainer::from_json(json_string) under one build, for a string
\* that parses to an object whose fields have the expected types
from_json_under(json, build) ==
    LET at_least_one_required ==
            json.query # None \/ json.terms # None \/ json.term_ids # None
        thresholds ==
            IF json.thresholds = None THEN <<>>
            ELSE [i \in 1..Len(json.thresholds[1]) |->
                     <<json.thresholds[1][i].k, float32(json.thresholds[1][i].score)>>]
        s == IF json.selections = None THEN [error |-> "", selections |-> <<>>]
             ELSE decode_selections(json.selections[1], <<>>, build)
    IN IF s.error # "" THEN Result(s.error, QueryContainer, FALSE)
       ELSE IF ~at_least_one_required
       THEN Result("invalid_argument", QueryContainer, FALSE)
       ELSE Result("",
               [id |-> json.id, query_string |-> json.query,
                processed_terms |-> json.terms, term_ids |-> json.term_ids,
                thresholds |-> thresholds, selections |-> s.selections],
               FALSE)

\* QueryContainer::from_json(json_string): every outcome
from_json(json) == {from_json_under(json, build) : build \in JsonBuilds}

----------------------------------------------------------------------------
(* One query container driven through its public interface.  A constructor *)
(* replaces the container at hand; when it raises, the container at hand   *)
(* stays.  After "abort" the process is gone and nothing more happens.     *)
A == <<"a">>
B == <<"b">>

RawQueries == {<<"a">>}
ColonLines == {<<"q", ":", "a">>, <<"a">>}
TermLists == {<<B, A>>}
TermProcessors == {"none", "stop_b"}
TermIdLists == {<<0>>, <<1, 0, 1>>}
ThresholdInputs == {<<10, 1>>, <<10, 2>>, <<20, 1>>}
SelectionInputs ==
    {<<10, Selection(<<0>>, << <<1, 2>> >>)>>,
     <<10, Selection(<<2, 1, 0>>, << <<1, 2>>, <<0, 1>>, <<1, 2>> >>)>>,
     <<20, Selection(<<0>>, << <<1, 2>> >>)>>}
QueryInputs == ({10} \X RequestFlagSet) \cup {<<20, 7>>}
FilterInputs == {<<1, 0>>, <<1, 1>>, <<MaxTerms>>}
MaskLists ==
    {<<m>> : m \in 0..2 ^ MaxTerms - 1}
        \cup {<<1, 6>>, <<6, 1>>, <<5, 3>>, <<7, 1>>}

\* JSON lines given to a container that is then used: a full object, and
\* one without query, terms and term_ids
ContainerJsonInputs ==
    {Json(Some(<<"q">>), Some(<<"a">>), Some(<<B, A>>), Some(<<1, 0>>),
          Some(<<[k |-> 10, score |-> 1]>>),
          Some(<<[k |-> 10, intersections |-> <<1, 6>>]>>)),
     Json(Some(<<"q">>), None, None, None, None, None)}

\* JSON lines: every choice of the fields query, terms and term_ids, bare
\* or with id, thresholds and selections; and every mask list as the
\* intersections of one selection
JsonInputs ==
    {Json(IF extras THEN Some(<<"q">>) ELSE None,
          IF "query" \in fields THEN Some(<<"a">>) ELSE None,
          IF "terms" \in fields THEN Some(<<B, A, B>>) ELSE None,
          IF "term_ids" \in fields THEN Some(<<1, 0, 1>>) ELSE None,
          IF extras THEN Some(<<[k |-> 10, score |-> 1]>>) ELSE None,
          IF extras THEN Some(<<[k |-> 10, intersections |-> <<1, 6>>]>>) ELSE None) :
        fields \in SUBSET {"query", "terms", "term_ids"}, extras \in BOOLEAN}
    \cup
    {Json(None, None, None, Some(<<1, 0, 1>>), None,
          Some(<<[k |-> 10, intersections |-> masks]>>)) : masks \in MaskLists}

Call(op, args, error, r) == [op |-> op, args |-> args, error |-> error, ret |-> r]

\* the process has not been ended
Alive == call.error # "abort"

\* a container has been constructed
Constructed ==
    \/ m_data.query_string # None
    \/ m_data.processed_terms # None
    \/ m_data.term_ids # None

InitContainer ==
    /\ InitQueue(1)
    /\ NoReplay
    /\ NoLoop
    /\ NoQuery
    /\ NoExt

Raw(query_string) ==
    /\ Alive
    /\ m_data' = raw(query_string)
    /\ call' = Call("raw", query_string, "", FALSE)
    /\ UNCHANGED <<queue_vars, replay_vars, loop_vars, flags, ext_vars>>

FromTerms(terms, term_processor) ==
    /\ Alive
    /\ m_data' = from_terms(terms, term_processor)
    /\ call' = Call("from_terms", terms, "", FALSE)
    /\ UNCHANGED <<queue_vars, replay_vars, loop_vars, flags, ext_vars>>

FromTermIds(term_ids) ==
    /\ Alive
    /\ m_data' = from_term_ids(term_ids)
    /\ call' = Call("from_term_ids", term_ids, "", FALSE)
    /\ UNCHANGED <<queue_vars, replay_vars, loop_vars, flags, ext_vars>>

FromColonFormat(line) ==
    /\ Alive
    /\ m_data' = from_colon_format(line)
    /\ call' = Call("from_colon_format", line, "", FALSE)
    /\ UNCHANGED <<queue_vars, replay_vars, loop_vars, flags, ext_vars>>

FromJson(json) ==
    /\ Alive
    /\ \E r \in from_json(json) :
          /\ m_data' = IF r.error = "" THEN r.data ELSE m_data
          /\ call' = Call("from_json", json, r.error, FALSE)
    /\ UNCHANGED <<queue_vars, replay_vars, loop_vars, flags, ext_vars>>

Parse ==
    /\ Alive
    /\ Constructed
    /\ LET r == parse(m_data)
       IN /\ m_data' = r.data
          /\ call' = Call("parse", <<>>, r.error, FALSE)
    /\ UNCHANGED <<queue_vars, replay_vars, loop_vars, flags, ext_vars>>

AddThreshold(k, score) ==
    /\ Alive
    /\ Constructed
    /\ LET r == add_threshold(m_data, k, score)
       IN /\ m_data' = r.data
          /\ call' = Call("add_threshold", <<k, score>>, "", r.ret)
    /\ UNCHANGED <<queue_vars, replay_vars, loop_vars, flags, ext_vars>>

AddSelection(k, selection) ==
    /\ Alive
    /\ Constructed
    /\ LET r == add_selection(m_data, k, selection)
       IN /\ m_data' = r.data
          /\ call' = Call("add_selection", <<k, selection>>, "", r.ret)
    /\ UNCHANGED <<queue_vars, replay_vars, loop_vars, flags, ext_vars>>

FilterTerms(term_positions) ==
    /\ Alive
    /\ Constructed
    /\ \E r \in filter_terms(m_data, term_positions) :
          /\ m_data' = r.data
          /\ call' = Call("filter_terms", term_positions, r.error, FALSE)
    /\ UNCHANGED <<queue_vars, replay_vars, loop_vars, flags, ext_vars>>

\* m_data.to_json()
ToJson ==
    /\ Alive
    /\ Constructed
    /\ call' = Call("to_json", <<>>, "", to_json(m_data))
    /\ UNCHANGED <<queue_vars, replay_vars, loop_vars, m_data, flags, ext_vars>>

\* from_json on the JSON that to_json has just returned
FromJsonBack ==
    /\ call.op = "to_json"
    /\ FromJson(call.ret)

\* m_data.query(k, request_flags)
MakeQuery(k, request_flags) ==
    /\ Alive
    /\ Constructed
    /\ LET r == QueryRequest(m_data, k, request_flags)
       IN call' = Call("query", <<k, request_flags>>, r.error, r.request)
    /\ UNCHANGED <<queue_vars, replay_vars, loop_vars, m_data, flags, ext_vars>>

NextContainer ==
    \/ \E query_string \in RawQueries : Raw(query_string)
    \/ \E terms \in TermLists, term_processor \in TermProcessors :
          FromTerms(terms, term_processor)
    \/ \E term_ids \in TermIdLists : FromTermIds(term_ids)
    \/ \E line \in ColonLines : FromColonFormat(line)
    \/ \E json \in ContainerJsonInputs : FromJson(json)
    \/ ToJson
    \/ FromJsonBack
    \/ Parse
    \/ \E t \in ThresholdInputs : AddThreshold(t[1], t[2])
    \/ \E s \in SelectionInputs : AddSelection(s[1], s[2])
    \/ \E term_positions \in FilterInputs : FilterTerms(term_positions)
    \/ \E q \in QueryInputs : MakeQuery(q[1], q[2])

SpecContainer == InitContainer /\ [][NextContainer]_vars

\* from_json on its own, line after line
NextJson == \E json \in JsonInputs : FromJson(json)

SpecJson == InitContainer /\ [][NextJson]_vars

----------------------------------------------------------------------------
(* Properties of the query container, checked under SpecContainer *)

strictly_ascending(v) == \A i \in 1..Len(v) - 1 : v[i] < v[i + 1]
pairs_strictly_ascending(v) == \A i \in 1..Len(v) - 1 : pair_less(v[i], v[i + 1])
occurrences(v, x) == Cardinality({i \in 1..Len(v) : v[i] = x})

\* the request holds the distinct term ids of the container in ascending
\* order, with their multiplicities as weights, or 1 without the Weights flag
request_terms_ok(request, term_ids, request_flags) ==
    /\ strictly_ascending(request.term_ids)
    /\ elements(request.term_ids) = elements(term_ids)
    /\ Len(request.term_weights) = Len(request.term_ids)
    /\ \A i \in 1..Len(request.term_ids) :
          request.term_weights[i] =
              IF contains(request_flags, FlagWeights)
              THEN occurrences(term_ids, request.term_ids[i])
              ELSE 1

\* the Selection flag is set, the container has a selection for k, and one
\* of its positions is not a position of term_ids
selects_past_end(data, k, request_flags) ==
    /\ contains(request_flags, FlagSelection)
    /\ \E i \in 1..Len(data.selections) :
          /\ data.selections[i][1] = k
          /\ \A j \in 1..i - 1 : data.selections[j][1] # k
          /\ \/ \E p \in elements(data.selections[i][2].selected_terms) :
                   p >= Len(data.term_ids[1])
             \/ \E pp \in elements(data.selections[i][2].selected_pairs) :
                   pp[1] >= Len(data.term_ids[1]) \/ pp[2] >= Len(data.term_ids[1])

\* C13 as stated: for any container whose term ids are set, query(k, flags)
\* yields the distinct term ids in strictly ascending order with parallel
\* weights (multiplicities with the Weights flag, 1 without it); a container
\* without term ids raises an error.
C13_QueryYieldsTermsAndWeights ==
    call.op = "query" =>
        IF m_data.term_ids = None THEN call.error # ""
        ELSE /\ call.error = ""
             /\ request_terms_ok(call.ret, m_data.term_ids[1], call.args[2])

\* C13 amended: the same, for any container whose term ids are set and
\* for which the Selection flag is cleared, or no selection exists for k, or
\* every selected position is a position of the term ids; when a selected
\* position is past the end query raises an error; a container without
\* term ids raises an error.
C13_QueryYieldsTermsAndWeightsInRange ==
    call.op = "query" =>
        IF m_data.term_ids = None THEN call.error = "domain_error"
        ELSE IF selects_past_end(m_data, call.args[1], call.args[2])
        THEN call.error = "out_of_range"
        ELSE /\ call.error = ""
             /\ request_terms_ok(call.ret, m_data.term_ids[1], call.args[2])

C13_Witness ==
    /\ call.op = "query" /\ call.error = ""
    /\ m_data.term_ids = Some(<<1, 0, 1>>)
    /\ contains(call.args[2], FlagWeights)
    /\ contains(call.args[2], FlagSelection)
    /\ QueryContainer_selection(m_data, call.args[1]) # None
    /\ call.ret.term_ids = <<0, 1>>
    /\ call.ret.term_weights = <<1, 2>>

\* C14: with the Selection flag set and a selection for k in the container,
\* the request's selection holds the term ids at the selected positions,
\* singletons as a sorted duplicate-free list and pairs as a sorted
\* duplicate-free list of (term id, term id); without the flag or without a
\* selection for k the request has no selection; without the Threshold flag
\* the request has no threshold.
C14_RequestSelectionAndThreshold ==
    (call.op = "query" /\ call.error = "") =>
        LET k == call.args[1]
            request_flags == call.args[2]
            term_ids == m_data.term_ids[1]
            selection == QueryContainer_selection(m_data, k)
        IN /\ IF contains(request_flags, FlagSelection) /\ selection # None
              THEN /\ call.ret.selection # None
                   /\ LET s == call.ret.selection[1]
                      IN /\ strictly_ascending(s.selected_terms)
                         /\ elements(s.selected_terms) =
                               {term_ids[p + 1] :
                                   p \in elements(selection[1].selected_terms)}
                         /\ pairs_strictly_ascending(s.selected_pairs)
                         /\ elements(s.selected_pairs) =
                               {<<term_ids[pp[1] + 1], term_ids[pp[2] + 1]>> :
                                   pp \in elements(selection[1].selected_pairs)}
              ELSE call.ret.selection = None
           /\ ~contains(request_flags, FlagThreshold) => call.ret.threshold = None

C14_Witness ==
    /\ call.op = "query" /\ call.error = "" /\ call.args = <<10, FlagSelection>>
    /\ m_data.term_ids = Some(<<1, 0, 1>>)
    /\ QueryContainer_threshold(m_data, 10) # None
    /\ QueryContainer_selection(m_data, 10) =
          Some(Selection(<<2, 1, 0>>, << <<1, 2>>, <<0, 1>>, <<1, 2>> >>))
    /\ call.ret.threshold = None
    /\ call.ret.selection = Some(Selection(<<0, 1>>, << <<0, 1>>, <<1, 0>> >>))

\* C16: from_json(to_json_string(q)) == q for every container q built
\* through the interface, whatever the order of the terms and pairs of its
\* selections.
C16_JsonRoundTrip ==
    [][(call.op = "to_json" /\ call'.op = "from_json" /\ call'.args = call.ret)
          => (call'.error = "" /\ m_data' = m_data)]_vars

\* C20: add_threshold(k, score) returns true exactly when the container
\* already held a threshold for k; afterwards threshold(k) is score and the
\* threshold of every other k is as before; add_selection(k, selection)
\* does the same for selections.
C20_AddUpsertsByK ==
    [][/\ call'.op = "add_threshold" =>
             LET k == call'.args[1]
             IN /\ call'.ret = (\E i \in 1..Len(m_data.thresholds) :
                                   m_data.thresholds[i][1] = k)
                /\ QueryContainer_threshold(m_data', k) = Some(call'.args[2])
                /\ \A other \in Ks \ {k} :
                      QueryContainer_threshold(m_data', other) =
                          QueryContainer_threshold(m_data, other)
       /\ call'.op = "add_selection" =>
             LET k == call'.args[1]
             IN /\ call'.ret = (\E i \in 1..Len(m_data.selections) :
                                   m_data.selections[i][1] = k)
                /\ QueryContainer_selection(m_data', k) = Some(call'.args[2])
                /\ \A other \in Ks \ {k} :
                      QueryContainer_selection(m_data', other) =
                          QueryContainer_selection(m_data, other)]_vars

C20_Witness ==
    /\ call.op = "add_threshold" /\ call.args = <<10, 2>> /\ call.ret = TRUE
    /\ m_data.thresholds = << <<20, 1>>, <<10, 2>> >>
    /\ Len(m_data.selections) = 2

----------------------------------------------------------------------------
(* Properties of from_json, checked under SpecJson *)

json_masks(json) ==
    IF json.selections = None THEN {}
    ELSE UNION {elements(json.selections[1][i].intersections) :
                   i \in 1..Len(json.selections[1])}

\* C17: from_json raises an error for any selection whose intersections
\* hold a mask with more than two bits set, and returns no container.
C17_RejectsWideMasks ==
    (call.op = "from_json" /\ \E mask \in json_masks(call.args) :
                                 bitset_count(mask) > 2)
        => call.error # ""

\* C18: from_json returns a container only for an object with at least one
\* of query, terms and term_ids; an object with none of them raises an
\* error, also when it has id, thresholds or selections.
C18_RequiresQueryTermsOrTermIds ==
    call.op = "from_json" =>
        (call.error = "" =>
            \/ call.args.query # None
            \/ call.args.terms # None
            \/ call.args.term_ids # None)

C18_Witness ==
    /\ call.op = "from_json" /\ call.error = "invalid_argument"
    /\ call.args.query = None /\ call.args.terms = None /\ call.args.term_ids = None
    /\ call.args.id # None /\ call.args.thresholds # None
    /\ call.args.selections # None

\* the position of the only bit of a mask, and of the two bits of a mask
only_bit(mask) == CHOOSE p \in 0..MaxTerms : mask = 2 ^ p
two_bits(mask) ==
    CHOOSE pq \in (0..MaxTerms) \X (0..MaxTerms) :
        pq[1] < pq[2] /\ mask = 2 ^ pq[1] + 2 ^ pq[2]

\* C19: from_json turns each mask with one bit p into the selected term p
\* and each mask with two bits p < q into the selected pair (p, q), both in
\* the order of the masks.
C19_MasksDecodeInOrder ==
    (/\ call.op = "from_json" /\ call.error = ""
     /\ call.args.selections # None
     /\ \A mask \in json_masks(call.args) : bitset_count(mask) \in {1, 2})
        => /\ Len(m_data.selections) = Len(call.args.selections[1])
           /\ \A i \in 1..Len(m_data.selections) :
                 LET masks == call.args.selections[1][i].intersections
                     ones == SelectSeq(masks, LAMBDA m : bitset_count(m) = 1)
                     twos == SelectSeq(masks, LAMBDA m : bitset_count(m) = 2)
                 IN /\ m_data.selections[i][1] = call.args.selections[1][i].k
                    /\ m_data.selections[i][2].selected_terms =
                          [j \in 1..Len(ones) |-> only_bit(ones[j])]
                    /\ m_data.selections[i][2].selected_pairs =
                          [j \in 1..Len(twos) |-> two_bits(twos[j])]

C19_Witness ==
    /\ call.op = "from_json" /\ call.error = ""
    /\ call.args.selections = Some(<<[k |-> 10, intersections |-> <<1, 6>>]>>)
    /\ m_data.selections = << <<10, Selection(<<0>>, << <<1, 2>> >>)>> >>

----------------------------------------------------------------------------
(* Properties of filter_terms, checked under SpecContainer *)

\* the elements of v at the given positions (counted from 0), in order
at_positions(v, term_positions) ==
    [i \in 1..Len(term_positions) |-> v[term_positions[i] + 1]]

\* every position is below the length of each vector that is set
positions_in_range(data, term_positions) ==
    \A i \in 1..Len(term_positions) :
        /\ data.processed_terms # None =>
              term_positions[i] < Len(data.processed_terms[1])
        /\ data.term_ids # None => term_positions[i] < Len(data.term_ids[1])

\* C21: after filter_terms(p_1..p_n) with every position in range, terms()
\* and term_ids() (whichever are set) are [old[p_1], ..., old[p_n]] in that
\* order, also when a position occurs more than once; with a position out
\* of range an error is raised.
C21_FilterTermsKeepsPositions ==
    [][call'.op = "filter_terms" =>
          IF positions_in_range(m_data, call'.args)
          THEN /\ call'.error = ""
               /\ m_data.processed_terms # None =>
                     m_data'.processed_terms =
                         Some(at_positions(m_data.processed_terms[1], call'.args))
               /\ m_data.term_ids # None =>
                     m_data'.term_ids =
                         Some(at_positions(m_data.term_ids[1], call'.args))
          ELSE call'.error # ""]_vars

----------------------------------------------------------------------------
(* QueryReader (src/query.cpp): reads a stream line by line.  A line is a  *)
(* sequence of characters; the JSON lines given here are objects with one  *)
(* string member, written {name:"value"} with the name as one character.   *)
MaxLines == 3
MaxFilters == 1
MaxMaps == 2

Quote == "'"
FormatJson == "Json"
FormatColon == "Colon"

\* nlohmann::json::parse(json_string) for such lines: the object, or a
\* parse error for any other text
json_parse(line) ==
    LET n == Len(line)
    IN IF /\ n >= 6
          /\ line[1] = "{" /\ line[3] = ":" /\ line[4] = Quote
          /\ line[n - 1] = Quote /\ line[n] = "}"
          /\ line[2] \notin {"{", "}", ":", Quote}
          /\ \A i \in 5..n - 2 : line[i] # Quote
       THEN LET value == Some(SubSeq(line, 5, n - 2))
            IN [error |-> "",
                json |-> Json(IF line[2] = "id" THEN value ELSE None,
                              IF line[2] = "query" THEN value ELSE None,
                              None, None, None, None)]
       ELSE [error |-> "parse_error", json |-> Json(None, None, None, None, None, None)]

\* QueryContainer::from_json on the text of a line: every outcome
from_json_string(line) ==
    LET p == json_parse(line)
    IN IF p.error # "" THEN {Result("runtime_error", QueryContainer, FALSE)}
       ELSE from_json(p.json)

\* the filter functions and map functions given to a reader
FilterFunctions == {"has_id", "has_query"}
MapFunctions == {"threshold_1", "threshold_2"}

filter_function(fn, container) ==
    IF fn = "has_id" THEN container.id # None
    ELSE container.query_string # None

map_function(fn, container) ==
    IF fn = "threshold_1" THEN add_threshold(container, 10, 1).data
    ELSE add_threshold(container, 10, 2).data

\* variant of next_query that tries JSON first on every line
next_query_detect_each_line(r) ==
    IF r.m_stream_ref = <<>>
    THEN {[reader |-> r, error |-> "", query |-> None]}
    ELSE LET line == Head(r.m_stream_ref)
             read == [r EXCEPT !.m_stream_ref = Tail(@), !.m_line_buf = line]
         IN {IF q.error = ""
             THEN [reader |-> [read EXCEPT !.m_format = Some(FormatJson)],
                   error |-> "", query |-> Some(q.data)]
             ELSE [reader |-> [read EXCEPT !.m_format = Some(FormatColon)],
                   error |-> "", query |-> Some(from_colon_format(line))] :
               q \in from_json_string(line)}

\* QueryReader::next_query(reader): every outcome, each with the reader
\* after the call, the error raised and the optional container returned
next_query(r) ==
    IF r.m_stream_ref = <<>>
    THEN {[reader |-> r, error |-> "", query |-> None]}
    ELSE LET line == Head(r.m_stream_ref)
             read == [r EXCEPT !.m_stream_ref = Tail(@), !.m_line_buf = line]
         IN IF r.m_format # None
            THEN IF r.m_format[1] = FormatJson
                 THEN {[reader |-> read, error |-> q.error,
                        query |-> IF q.error = "" THEN Some(q.data) ELSE None] :
                          q \in from_json_string(line)}
                 ELSE {[reader |-> read, error |-> "",
                        query |-> Some(from_colon_format(line))]}
            ELSE {IF q.error = ""
                  THEN [reader |-> [read EXCEPT !.m_format = Some(FormatJson)],
                        error |-> "", query |-> Some(q.data)]
                  ELSE IF q.error = "abort"
                  THEN [reader |-> read, error |-> "abort", query |-> None]
                  ELSE [reader |-> [read EXCEPT !.m_format = Some(FormatColon)],
                        error |-> "", query |-> Some(from_colon_format(line))] :
                    q \in from_json_string(line)}

\* the loop over m_filter_functions in next(): the continue in its body
\* goes on with the next filter function, so the loop always runs to its
\* end and never starts the next pass of while (true)
RECURSIVE filter_loop(_, _)
filter_loop(fns, container) ==
    IF fns = <<>> THEN "end"
    ELSE IF ~filter_function(Head(fns), container)
         THEN filter_loop(Tail(fns), container)
         ELSE filter_loop(Tail(fns), container)

\* the loop over m_map_functions in next()
RECURSIVE map_loop(_, _)
map_loop(fns, container) ==
    IF fns = <<>> THEN container
    ELSE map_loop(Tail(fns), map_function(Head(fns), container))

\* QueryReader::next(): every outcome
RECURSIVE reader_next(_)
reader_next(r) ==
    UNION {IF q.error # "" \/ q.query = None
           THEN {[reader |-> q.reader, error |-> q.error, ret |-> None]}
           ELSE LET container == q.query[1]
                IN IF filter_loop(q.reader.m_filter_functions, container) = "continue"
                   THEN reader_next(q.reader)
                   ELSE {[reader |-> q.reader, error |-> "",
                          ret |-> Some(map_loop(q.reader.m_map_functions, container))]} :
              q \in next_query(r)}

\* QueryReader::filter(fn) and QueryReader::map(fn)
reader_filter(r, fn) == [r EXCEPT !.m_filter_functions = Append(@, fn)]
reader_map(r, fn) == [r EXCEPT !.m_map_functions = Append(@, fn)]

\* the lines of the stream: JSON with a query, JSON without one, a colon
\* line and a line without a colon
JsonQueryLine == <<"{", "query", ":", Quote, "a", Quote, "}">>
JsonIdLine == <<"{", "id", ":", Quote, "q", Quote, "}">>
ColonLine == <<"q", ":", "a">>
PlainLine == <<"a">>
ReaderLines == {JsonQueryLine, JsonIdLine, ColonLine, PlainLine}

RECURSIVE SeqsUpTo(_, _)
SeqsUpTo(S, n) ==
    IF n = 0 THEN {<<>>}
    ELSE LET shorter == SeqsUpTo(S, n - 1)
         IN shorter \cup {Append(s, x) : s \in shorter, x \in S}

\* QueryReader::QueryReader(input, stream_ref) over any stream
InitReader ==
    /\ InitQueue(1)
    /\ NoReplay
    /\ NoLoop
    /\ m_data = QueryContainer
    /\ flags = 0
    /\ call = [op |-> "none", args |-> <<>>, error |-> "", ret |-> FALSE]
    /\ NoLive
    /\ NoIndex
    /\ NoCursor
    /\ \E lines \in SeqsUpTo(ReaderLines, MaxLines) :
          reader = [m_stream_ref |-> lines, m_line_buf |-> <<>>, m_format |-> None,
                    m_filter_functions |-> <<>>, m_map_functions |-> <<>>]

ReaderFilter(fn) ==
    /\ Alive
    /\ Len(reader.m_filter_functions) < MaxFilters
    /\ reader' = reader_filter(reader, fn)
    /\ call' = Call("filter", fn, "", FALSE)
    /\ UNCHANGED <<queue_vars, replay_vars, loop_vars, m_data, flags, live, index_vars, raw_cursor>>

ReaderMap(fn) ==
    /\ Alive
    /\ Len(reader.m_map_functions) < MaxMaps
    /\ reader' = reader_map(reader, fn)
    /\ call' = Call("map", fn, "", FALSE)
    /\ UNCHANGED <<queue_vars, replay_vars, loop_vars, m_data, flags, live, index_vars, raw_cursor>>

ReaderNext ==
    /\ Alive
    /\ \E r \in reader_next(reader) :
          /\ reader' = r.reader
          /\ call' = Call("next", reader.m_stream_ref, r.error, r.ret)
    /\ UNCHANGED <<queue_vars, replay_vars, loop_vars, m_data, flags, live, index_vars, raw_cursor>>

NextReader ==
    \/ \E fn \in FilterFunctions : ReaderFilter(fn)
    \/ \E fn \in MapFunctions : ReaderMap(fn)
    \/ ReaderNext

SpecReader == InitReader /\ [][NextReader]_vars

----------------------------------------------------------------------------
(* Properties of the query reader, checked under SpecReader *)

\* the container that the line in m_line_buf parses to under m_format
container_of_line(r) ==
    IF r.m_format = Some(FormatJson)
    THEN (CHOOSE q \in from_json_string(r.m_line_buf) : q.error = "").data
    ELSE from_colon_format(r.m_line_buf)

\* C22: next never returns a container for which a registered filter
\* returned false; it returns nullopt only at the end of the input, and a
\* returned container has gone through the maps in registration order.
C22_NextDropsFiltered ==
    (call.op = "next" /\ call.error = "") =>
        IF call.ret = None
        THEN reader.m_stream_ref = <<>>
        ELSE /\ \A i \in 1..Len(reader.m_filter_functions) :
                   filter_function(reader.m_filter_functions[i],
                                   container_of_line(reader))
             /\ call.ret[1] = map_loop(reader.m_map_functions,
                                       container_of_line(reader))

\* a line parses as a JSON query
is_json_query(line) == \E q \in from_json_string(line) : q.error = ""

\* C23: the format chosen on the first line read (JSON if the line parses
\* as a JSON query, colon otherwise) never changes: every later line is
\* parsed with that format only, and in JSON mode a line that is not a
\* valid JSON query raises an error instead of being read as a colon line.
C23_FormatFixedByFirstLine ==
    [][(call'.op = "next" /\ reader.m_stream_ref # <<>>) =>
          LET line == Head(reader.m_stream_ref)
          IN /\ reader'.m_line_buf = line
             /\ reader'.m_format =
                   IF reader.m_format # None THEN reader.m_format
                   ELSE IF is_json_query(line) THEN Some(FormatJson)
                   ELSE Some(FormatColon)
             /\ IF reader'.m_format = Some(FormatJson) /\ ~is_json_query(line)
                THEN call'.error # "" /\ call'.ret = None
                ELSE /\ call'.error = ""
                     /\ call'.ret =
                           Some(map_loop(reader.m_map_functions,
                                         container_of_line(reader')))]_vars

C23_Witness ==
    /\ call.op = "next" /\ call.error = "runtime_error" /\ call.ret = None
    /\ reader.m_format = Some(FormatJson)
    /\ reader.m_line_buf = ColonLine
    /\ Len(call.args) = 2

----------------------------------------------------------------------------
(* Live-block bitmap (include/pisa/query/live_block_computation.hpp).      *)
(* Widths are scaled down together: a uint8_t holds 0..Uint8Max, a         *)
(* uint16_t holds 0..Uint16Max (so that a few terms overflow it, as 258    *)
(* terms of 255 overflow 65535), _mm_loadu_si128 reads LoadBytes bytes, a  *)
(* 128-bit register holds Lanes128 16-bit lanes and a 256-bit register     *)
(* Lanes256 (16 bytes, 8 lanes and 16 lanes in the source).                *)
Uint8Max == 3
Uint16Max == 7
LoadBytes == 4
Lanes128 == 2
Lanes256 == 4
MaxBlocks == 5
MaxLiveTerms == 3

\* bit_vector_builder::append_bits(bits, len): the len low bits, lowest first
append_bits(bv, bits, len) ==
    bv \o [j \in 1..len |-> (bits \div 2 ^ (j - 1)) % 2]

\* uint16_t sum = scores[0][i]; for each further term sum += scores[term][i]
\* (i and term count from 1 here): the addition wraps around
RECURSIVE scalar_sum(_, _, _, _)
scalar_sum(term_scores, i, term, sum) ==
    IF term > Len(term_scores) THEN sum
    ELSE scalar_sum(term_scores, i, term + 1, (sum + term_scores[term][i]) % (Uint16Max + 1))

\* the scalar loop over the blocks after the first i
RECURSIVE scalar_loop(_, _, _, _)
scalar_loop(term_scores, threshold16, i, bv) ==
    IF i >= Len(term_scores[1]) THEN bv
    ELSE LET sum == scalar_sum(term_scores, i + 1, 2, term_scores[1][i + 1])
         IN scalar_loop(term_scores, threshold16, i + 1,
                        append_bits(bv, IF sum >= threshold16 THEN 1 ELSE 0, 1))

Returned(bv) == [error |-> "", bits |-> bv]
Aborted == [error |-> "abort", bits |-> <<>>]

\* compute_live_quant16(scores, threshold)
compute_live_quant16(term_scores, threshold16) ==
    Returned(scalar_loop(term_scores, threshold16, 0, <<>>))

\* what the build decides where the 128-bit variant reads past the end of
\* a vector: the process is ended, or the bytes read have some value
LiveBuilds == [over_read : {"abort", "garbage"}, garbage : {0, Uint8Max}]

\* _mm_loadu_si128(data + i): LoadBytes bytes from offset i
loadu_si128(data, i, build) ==
    [j \in 1..LoadBytes |-> IF i + j <= Len(data) THEN data[i + j] ELSE build.garbage]

\* the load reads past the end of the vector
reads_past_end(data, i) == i + LoadBytes > Len(data)

\* _mm_unpacklo_epi8(x, zero) and _mm_unpackhi_epi8(x, zero) on one 128-bit
\* register: the low bytes, and the high bytes, as 16-bit lanes
unpacklo_epi8(x) == [j \in 1..Lanes128 |-> x[j]]
unpackhi_epi8(x) == [j \in 1..Lanes128 |-> x[Lanes128 + j]]

\* load64(data + i)
load64(data, i, build) == unpacklo_epi8(loadu_si128(data, i, build))

\* load(data + i) of the 256-bit variant: low half from _b, high half from _a
load(data, i, build) ==
    LET x == loadu_si128(data, i, build)
        _b == unpacklo_epi8(x)
        _a == unpackhi_epi8(x)
    IN _b \o _a

\* _mm_adds_epu16 and _mm256_adds_epu16: lane by lane, saturating
adds_epu16(a, b) == [j \in 1..Len(a) |-> Min(a[j] + b[j], Uint16Max)]

\* _mm_cmpeq_epi16(_mm_max_epu16(sum, thresholds), sum), one flag per lane
cmpeq_max(sum, threshold16) == [j \in 1..Len(sum) |-> Max(sum[j], threshold16) = sum[j]]

\* the lane flags as an integer, lane j at bit j - 1 (the shuffle and
\* movemask of the 128-bit variant, the packs and movemask of the 256-bit one)
RECURSIVE movemask(_)
movemask(masks) ==
    IF masks = <<>> THEN 0
    ELSE (IF Head(masks) THEN 1 ELSE 0) + 2 * movemask(Tail(masks))

\* the sum over the terms from term on of one group of lanes
RECURSIVE lanes_sum(_, _, _, _, _, _)
lanes_sum(term_scores, i, term, sum, wide, build) ==
    IF term > Len(term_scores) THEN sum
    ELSE lanes_sum(term_scores, i, term + 1,
                   adds_epu16(sum, IF wide THEN load(term_scores[term], i, build)
                                   ELSE load64(term_scores[term], i, build)),
                   wide, build)

\* some load of the group of lanes at i reads past the end of its vector
group_reads_past_end(term_scores, i) ==
    \E term \in 1..Len(term_scores) : reads_past_end(term_scores[term], i)

\* the loop over groups of Lanes128 blocks, then the scalar loop
RECURSIVE avx_loop(_, _, _, _, _)
avx_loop(term_scores, threshold16, i, bv, build) ==
    LET n == Len(term_scores[1])
    IN IF i < n /\ n - i >= Lanes128
       THEN IF group_reads_past_end(term_scores, i) /\ build.over_read = "abort"
            THEN Aborted
            ELSE LET sum == lanes_sum(term_scores, i, 2, load64(term_scores[1], i, build),
                                      FALSE, build)
                     maskBitsL1 == movemask(cmpeq_max(sum, threshold16))
                 IN avx_loop(term_scores, threshold16, i + Lanes128,
                             append_bits(bv, maskBitsL1, Lanes128), build)
       ELSE Returned(scalar_loop(term_scores, threshold16, i, bv))

\* avx_compute_live_quant16(scores, threshold): every outcome
avx_compute_live_quant16(term_scores, threshold16) ==
    {avx_loop(term_scores, threshold16, 0, <<>>, build) : build \in LiveBuilds}

\* the loop over groups of Lanes256 blocks, then the scalar loop
RECURSIVE avx2_loop(_, _, _, _, _)
avx2_loop(term_scores, threshold16, i, bv, build) ==
    LET n == Len(term_scores[1])
    IN IF i < n /\ n - i >= Lanes256
       THEN IF group_reads_past_end(term_scores, i) /\ build.over_read = "abort"
            THEN Aborted
            ELSE LET sum == lanes_sum(term_scores, i, 2, load(term_scores[1], i, build),
                                      TRUE, build)
                     maskBitsL1 == movemask(cmpeq_max(sum, threshold16))
                 IN avx2_loop(term_scores, threshold16, i + Lanes256,
                              append_bits(bv, maskBitsL1, Lanes256), build)
       ELSE Returned(scalar_loop(term_scores, threshold16, i, bv))

\* avx2_compute_live_quant16(scores, threshold): every outcome
avx2_compute_live_quant16(term_scores, threshold16) ==
    {avx2_loop(term_scores, threshold16, 0, <<>>, build) : build \in LiveBuilds}

\* the score vectors of one term over a number of blocks: a constant score,
\* or scores that change from block to block
ScoreRows(blocks) ==
    {[i \in 1..blocks |-> v] : v \in {0, 2, Uint8Max}}
        \cup {[i \in 1..blocks |-> i % (Uint8Max + 1)]}

NotRun == [error |-> "not run", bits |-> <<>>]

InitLive ==
    /\ InitQueue(1)
    /\ NoReplay
    /\ NoLoop
    /\ NoQuery
    /\ NoReader
    /\ NoIndex
    /\ NoCursor
    /\ \E blocks \in 0..MaxBlocks, threshold16 \in 0..Uint16Max :
       \E term_scores \in UNION {[1..terms -> ScoreRows(blocks)] : terms \in 1..MaxLiveTerms} :
          live = [scores |-> term_scores, threshold |-> threshold16,
                  scalar |-> NotRun, avx |-> NotRun, avx2 |-> NotRun]

\* the process has not been ended by a read past the end
LiveAlive == live.scalar.error # "abort" /\ live.avx.error # "abort" /\ live.avx2.error # "abort"

ComputeLive ==
    /\ LiveAlive
    /\ live.scalar = NotRun
    /\ live' = [live EXCEPT !.scalar = compute_live_quant16(live.scores, live.threshold)]
    /\ UNCHANGED <<queue_vars, replay_vars, loop_vars, query_vars, reader, index_vars, raw_cursor>>

AvxComputeLive ==
    /\ LiveAlive
    /\ live.avx = NotRun
    /\ \E r \in avx_compute_live_quant16(live.scores, live.threshold) :
          live' = [live EXCEPT !.avx = r]
    /\ UNCHANGED <<queue_vars, replay_vars, loop_vars, query_vars, reader, index_vars, raw_cursor>>

Avx2ComputeLive ==
    /\ LiveAlive
    /\ live.avx2 = NotRun
    /\ \E r \in avx2_compute_live_quant16(live.scores, live.threshold) :
          live' = [live EXCEPT !.avx2 = r]
    /\ UNCHANGED <<queue_vars, replay_vars, loop_vars, query_vars, reader, index_vars, raw_cursor>>

NextLive ==
    \/ ComputeLive
    \/ AvxComputeLive
    \/ Avx2ComputeLive

SpecLive == InitLive /\ [][NextLive]_vars

----------------------------------------------------------------------------
(* Properties of the live-block bitmap, checked under SpecLive *)

RECURSIVE sum_over_terms(_, _, _)
sum_over_terms(term_scores, i, term) ==
    IF term > Len(term_scores) THEN 0
    ELSE term_scores[term][i] + sum_over_terms(term_scores, i, term + 1)

\* C24: compute_live_quant16 outputs one bit per block, and bit i is 1 if
\* and only if min(sum over the terms of scores[term][i], max of uint16_t)
\* >= threshold, for any number of terms.
C24_ScalarBitIsSaturatedSumAtLeastThreshold ==
    live.scalar # NotRun =>
        /\ Len(live.scalar.bits) = Len(live.scores[1])
        /\ \A i \in 1..Len(live.scalar.bits) :
              live.scalar.bits[i] = 1 <=>
                  Min(sum_over_terms(live.scores, i, 1), Uint16Max) >= live.threshold

\* C25: for every number of blocks, every number of terms and every
\* threshold the scalar, the 128-bit and the 256-bit variant return the
\* same bit vector.
C25_VariantsReturnSameBits ==
    /\ live.avx # NotRun => live.avx = compute_live_quant16(live.scores, live.threshold)
    /\ live.avx2 # NotRun => live.avx2 = compute_live_quant16(live.scores, live.threshold)

----------------------------------------------------------------------------
(* block_freq_index (include/pisa/block_freq_index.hpp): the in-memory     *)
(* builder, the index and operator[].  Postings and sources are sequences  *)
(* of bytes.  A size_t is kept modulo SizeModulus.  The endpoint sequence  *)
(* is kept as one word per endpoint in place of the Elias-Fano coding.     *)
MaxLists == 2
SizeModulus == 65536
DynamicExtent == SizeModulus - 1

\* block_posting_list::write(out, n, docs_begin, freqs_begin): a header
\* with n, then the docid gaps and the frequencies
block_posting_list_write(out, n, docs, freqs) ==
    out \o <<n>>
        \o [j \in 1..n |-> IF j = 1 THEN docs[1] ELSE docs[j] - docs[j - 1]]
        \o [j \in 1..n |-> freqs[j]]

RECURSIVE concat(_)
concat(ss) == IF ss = <<>> THEN <<>> ELSE Head(ss) \o concat(Tail(ss))

\* block_posting_list::write_blocks(out, n, blocks)
block_posting_list_write_blocks(out, n, blocks) == out \o <<n>> \o concat(blocks)

\* compact_elias_fano::write(bvb, begin, universe, n, params): the first n
\* values of the sequence
compact_elias_fano_write(values, universe, n) == SubSeq(values, 1, n)

\* compact_elias_fano::enumerator::move(i).second
enumerator_move(endpoints, i) == endpoints[i + 1]

\* MemorySource::subspan(offset, size): the span as its offset and size
\* in the source, or an error when it does not lie inside the source
subspan(source, offset, extent) ==
    IF extent = DynamicExtent
    THEN IF offset > Len(source) THEN [error |-> "out_of_range", offset |-> 0, size |-> 0]
         ELSE [error |-> "", offset |-> offset, size |-> Len(source) - offset]
    ELSE IF offset + extent > Len(source)
         THEN [error |-> "out_of_range", offset |-> 0, size |-> 0]
         ELSE [error |-> "", offset |-> offset, size |-> extent]

\* the bytes of a span
span_bytes(source, span) == SubSeq(source, span.offset + 1, span.offset + span.size)

\* builder::builder(num_docs, params)
new_builder(num_docs, params) ==
    [m_params |-> params, m_num_docs |-> num_docs, m_endpoints |-> <<0>>, m_lists |-> <<>>]

\* builder::add_posting_list(n, docs_begin, freqs_begin, occurrences)
add_posting_list(b, n, docs, freqs) ==
    IF n = 0 THEN Result("invalid_argument", b, FALSE)
    ELSE LET lists == block_posting_list_write(b.m_lists, n, docs, freqs)
         IN Result("", [b EXCEPT !.m_lists = lists,
                                 !.m_endpoints = Append(@, Len(lists))], FALSE)

\* builder::add_posting_list(n, blocks)
add_posting_list_blocks(b, n, blocks) ==
    IF n = 0 THEN Result("invalid_argument", b, FALSE)
    ELSE LET lists == block_posting_list_write_blocks(b.m_lists, n, blocks)
         IN Result("", [b EXCEPT !.m_lists = lists,
                                 !.m_endpoints = Append(@, Len(lists))], FALSE)

\* builder::add_posting_list(data)
add_posting_list_bytes(b, data) ==
    LET lists == b.m_lists \o data
    IN Result("", [b EXCEPT !.m_lists = lists,
                            !.m_endpoints = Append(@, Len(lists))], FALSE)

\* builder::build(sq): the builder (its m_lists moved from) and the index
builder_build(b) ==
    LET m_size == Len(b.m_endpoints) - 1
        m_source == b.m_lists
        m_list_size == Len(m_source)
    IN [builder |-> [b EXCEPT !.m_lists = <<>>],
        sq |-> [m_params |-> b.m_params,
                m_size |-> m_size,
                m_num_docs |-> b.m_num_docs,
                m_endpoints |-> compact_elias_fano_write(b.m_endpoints, m_list_size, m_size),
                m_source |-> m_source,
                m_list_offset |-> 0,
                m_list_size |-> m_list_size]]

\* whether assert is compiled in
IndexBuilds == {"debug", "release"}

\* block_freq_index::operator[](i), for i < size(): the span borrowed
subscript(idx, i, build) ==
    LET startpoint == enumerator_move(idx.m_endpoints, i)
        length == IF i + 1 < idx.m_size
                  THEN (enumerator_move(idx.m_endpoints, i + 1) - startpoint) % SizeModulus
                  ELSE DynamicExtent
    IN IF length = 0 /\ build = "debug"
       THEN [error |-> "abort", offset |-> 0, size |-> 0]
       ELSE subspan(idx.m_source, idx.m_list_offset + startpoint, length)

NumDocsInputs == {2, 3}
PostingInputs ==
    {[n |-> 0, docs |-> <<>>, freqs |-> <<>>],
     [n |-> 1, docs |-> <<1>>, freqs |-> <<1>>],
     [n |-> 2, docs |-> <<0, 2>>, freqs |-> <<1, 2>>]}
BlocksInputs == {[n |-> 0, blocks |-> <<>>], [n |-> 1, blocks |-> << <<2, 1>> >>]}
BytesInputs == {<<>>, <<1, 0, 1>>}

InitBuilder ==
    /\ InitQueue(1)
    /\ NoReplay
    /\ NoLoop
    /\ NoQuery
    /\ NoReader
    /\ NoLive
    /\ NoCursor
    /\ stream_builder = None
    /\ index_file = None
    /\ sq = block_freq_index
    /\ other_sq = block_freq_index
    /\ \E num_docs \in NumDocsInputs : builder = new_builder(num_docs, GlobalParameters)

\* the builder takes one more list
BuilderOpen == Alive /\ Len(builder.m_endpoints) - 1 < MaxLists

AddPostingList(p) ==
    /\ BuilderOpen
    /\ LET r == add_posting_list(builder, p.n, p.docs, p.freqs)
       IN /\ builder' = r.data
          /\ call' = Call("add_posting_list", p, r.error, FALSE)
    /\ UNCHANGED <<queue_vars, replay_vars, loop_vars, m_data, flags, reader, live,
                   stream_builder, index_file, sq, other_sq, raw_cursor>>

AddPostingListBlocks(p) ==
    /\ BuilderOpen
    /\ LET r == add_posting_list_blocks(builder, p.n, p.blocks)
       IN /\ builder' = r.data
          /\ call' = Call("add_posting_list", p, r.error, FALSE)
    /\ UNCHANGED <<queue_vars, replay_vars, loop_vars, m_data, flags, reader, live,
                   stream_builder, index_file, sq, other_sq, raw_cursor>>

AddPostingListBytes(data) ==
    /\ BuilderOpen
    /\ LET r == add_posting_list_bytes(builder, data)
       IN /\ builder' = r.data
          /\ call' = Call("add_posting_list", [data |-> data], r.error, FALSE)
    /\ UNCHANGED <<queue_vars, replay_vars, loop_vars, m_data, flags, reader, live,
                   stream_builder, index_file, sq, other_sq, raw_cursor>>

Build ==
    /\ Alive
    /\ LET r == builder_build(builder)
       IN /\ builder' = r.builder
          /\ sq' = r.sq
          /\ call' = Call("build", <<>>, "", FALSE)
    /\ UNCHANGED <<queue_vars, replay_vars, loop_vars, m_data, flags, reader, live,
                   stream_builder, index_file, other_sq, raw_cursor>>

\* sq[i]
Subscript(i) ==
    /\ Alive
    /\ i < sq.m_size
    /\ \E build \in IndexBuilds :
          LET r == subscript(sq, i, build)
          IN call' = Call("operator[]", i, r.error, [offset |-> r.offset, size |-> r.size])
    /\ UNCHANGED <<queue_vars, replay_vars, loop_vars, m_data, flags, reader, live,
                   index_vars, raw_cursor>>

NextBuilder ==
    \/ \E p \in PostingInputs : AddPostingList(p)
    \/ \E p \in BlocksInputs : AddPostingListBlocks(p)
    \/ \E data \in BytesInputs : AddPostingListBytes(data)
    \/ Build
    \/ \E i \in 0..MaxLists - 1 : Subscript(i)

SpecBuilder == InitBuilder /\ [][NextBuilder]_vars

----------------------------------------------------------------------------
(* Properties of the index, checked under SpecBuilder *)

\* the endpoints of an index: those stored, then the size of the blob
endpoints_of(idx) == idx.m_endpoints \o <<idx.m_list_size>>

\* C26: after any sequence of add_posting_list calls followed by build,
\* endpoints[0] = 0, the endpoints are strictly increasing, there are
\* size + 1 of them and the last is the length of the postings blob, so
\* that every list is nonempty.
C26_BuiltEndpointsStrictlyIncrease ==
    call.op = "build" =>
        LET endpoints == endpoints_of(sq)
        IN /\ Len(endpoints) = sq.m_size + 1
           /\ endpoints[1] = 0
           /\ strictly_ascending(endpoints)
           /\ endpoints[sq.m_size + 1] = Len(sq.m_source)

\* C27: for every i < size(), operator[](i) borrows the bytes from
\* list_offset + endpoints[i] up to list_offset + endpoints[i + 1] (the end
\* of the blob for the last list); the length is positive and the ranges
\* of distinct lists are disjoint and in the order of the lists.
C27_SubscriptBorrowsListBytes ==
    call.op = "operator[]" =>
        LET endpoints == endpoints_of(sq)
            first(i) == sq.m_list_offset + endpoints[i + 1]
            last(i) == sq.m_list_offset + endpoints[i + 2]
        IN /\ call.error = ""
           /\ call.ret.offset = first(call.args)
           /\ call.ret.offset + call.ret.size = last(call.args)
           /\ call.ret.size > 0
           /\ \A j \in 0..sq.m_size - 1 :
                 j < call.args => last(j) <= call.ret.offset

----------------------------------------------------------------------------
(* The index file: written by block_freq_index::stream_builder, read by    *)
(* block_freq_index(MemorySource).  The layout that freeze_visitor gives   *)
(* a bit_vector is its number of bits (8 bytes), its number of words       *)
(* (8 bytes) and its words.                                                *)
SizeofGlobalParameters == Len(GlobalParameters)
BufferSize == 4
WordBits == 64

\* the 8 bytes of a std::uint64_t or std::size_t, little-endian
uint64_bytes(v) ==
    [j \in 1..8 |-> IF j = 1 THEN v % 256 ELSE IF j = 2 THEN (v \div 256) % 256 ELSE 0]

\* bit_cast<std::size_t>(bytes)
RECURSIVE bit_cast(_)
bit_cast(bytes) ==
    IF bytes = <<>> THEN 0 ELSE (Head(bytes) + 256 * bit_cast(Tail(bytes))) % SizeModulus

\* stream_builder::stream_builder(num_docs, params)
new_stream_builder(num_docs, params) ==
    [m_params |-> params, m_num_docs |-> num_docs, m_endpoints |-> <<0>>,
     m_postings_output |-> <<>>, m_postings_bytes_written |-> 0, m_buffer |-> <<>>]

\* stream_builder::flush()
flush(sb) ==
    [sb EXCEPT !.m_postings_output = @ \o sb.m_buffer, !.m_buffer = <<>>]

\* stream_builder::maybe_flush()
maybe_flush(sb) == IF Len(sb.m_buffer) >= BufferSize THEN flush(sb) ELSE sb

\* stream_builder::add_posting_list(n, docs_begin, freqs_begin, occurrences)
stream_add_posting_list(sb, n, docs, freqs) ==
    IF n = 0 THEN Result("invalid_argument", sb, FALSE)
    ELSE LET old_size == Len(sb.m_buffer)
             m_buffer == block_posting_list_write(sb.m_buffer, n, docs, freqs)
             written == sb.m_postings_bytes_written + Len(m_buffer) - old_size
         IN Result("",
                   maybe_flush([sb EXCEPT !.m_buffer = m_buffer,
                                          !.m_postings_bytes_written = written,
                                          !.m_endpoints = Append(@, written)]),
                   FALSE)

\* freezer(endpoints, "endpoints"): the bytes of a bit_vector of words
freeze_bit_vector(words) ==
    uint64_bytes(WordBits * Len(words)) \o uint64_bytes(Len(words))
        \o concat([j \in 1..Len(words) |-> uint64_bytes(words[j])])

\* stream_builder::build(index_path): the bytes written to the file
stream_build(sb) ==
    LET flushed == flush(sb)
        m_size == Len(sb.m_endpoints) - 1
        endpoints == compact_elias_fano_write(sb.m_endpoints,
                                              sb.m_postings_bytes_written, m_size)
    IN uint64_bytes(0)
           \o sb.m_params
           \o uint64_bytes(m_size)
           \o uint64_bytes(sb.m_num_docs)
           \o freeze_bit_vector(endpoints)
           \o uint64_bytes(sb.m_postings_bytes_written)
           \o flushed.m_postings_output

\* m_endpoints.map(mapper) over m_endpoint_memory: the words of the bit
\* vector, which follow its number of bits and its number of words
map_bit_vector(memory, endpoint_size) ==
    [j \in 1..endpoint_size |-> bit_cast(SubSeq(memory, 16 + 8 * (j - 1) + 1, 16 + 8 * j))]

NoIndexOpened(error) == [error |-> error, sq |-> block_freq_index]

\* variant of the constructor that steps over all of sizes_mem
block_freq_index_from_past_sizes(source) ==
    LET freeze_flags == subspan(source, 0, 8)
        param_mem == subspan(source, 8, SizeofGlobalParameters)
        sizes_mem == subspan(source, 8 + SizeofGlobalParameters, 32)
    IN IF freeze_flags.error # "" THEN NoIndexOpened(freeze_flags.error)
       ELSE IF param_mem.error # "" THEN NoIndexOpened(param_mem.error)
       ELSE IF sizes_mem.error # "" THEN NoIndexOpened(sizes_mem.error)
       ELSE LET sizes == span_bytes(source, sizes_mem)
                endpoint_size == bit_cast(SubSeq(sizes, 25, 32))
                offset == 8 + param_mem.size + 32
                m_endpoint_memory ==
                    subspan(source, offset, (8 * endpoint_size + 16) % SizeModulus)
            IN IF m_endpoint_memory.error # "" THEN NoIndexOpened(m_endpoint_memory.error)
               ELSE LET m_list_offset == offset + m_endpoint_memory.size + 8
                    IN [error |-> "",
                        sq |-> [m_params |-> span_bytes(source, param_mem),
                                m_size |-> bit_cast(SubSeq(sizes, 1, 8)),
                                m_num_docs |-> bit_cast(SubSeq(sizes, 9, 16)),
                                m_endpoints |->
                                    map_bit_vector(span_bytes(source, m_endpoint_memory),
                                                   endpoint_size),
                                m_source |-> source,
                                m_list_offset |-> m_list_offset,
                                m_list_size |-> (Len(source) - m_list_offset) % SizeModulus]]

\* block_freq_index::block_freq_index(MemorySource source)
block_freq_index_from(source) ==
    LET freeze_flags == subspan(source, 0, 8)
        param_mem == subspan(source, 8, SizeofGlobalParameters)
        sizes_mem == subspan(source, 8 + SizeofGlobalParameters, 32)
    IN IF freeze_flags.error # "" THEN NoIndexOpened(freeze_flags.error)
       ELSE IF param_mem.error # "" THEN NoIndexOpened(param_mem.error)
       ELSE IF sizes_mem.error # "" THEN NoIndexOpened(sizes_mem.error)
       ELSE LET sizes == span_bytes(source, sizes_mem)
                endpoint_size == bit_cast(SubSeq(sizes, 25, 32))
                offset == 8 + param_mem.size + 16
                m_endpoint_memory ==
                    subspan(source, offset, (8 * endpoint_size + 16) % SizeModulus)
            IN IF m_endpoint_memory.error # "" THEN NoIndexOpened(m_endpoint_memory.error)
               ELSE LET m_list_offset == offset + m_endpoint_memory.size + 8
                    IN [error |-> "",
                        sq |-> [m_params |-> span_bytes(source, param_mem),
                                m_size |-> bit_cast(SubSeq(sizes, 1, 8)),
                                m_num_docs |-> bit_cast(SubSeq(sizes, 9, 16)),
                                m_endpoints |->
                                    map_bit_vector(span_bytes(source, m_endpoint_memory),
                                                   endpoint_size),
                                m_source |-> source,
                                m_list_offset |-> m_list_offset,
                                m_list_size |-> (Len(source) - m_list_offset) % SizeModulus]]

\* the memory sources tried on a file: the file, every shorter prefix of
\* it, and the file followed by one more byte
SourcesOf(file) ==
    {SubSeq(file, 1, n) : n \in 0..Len(file)} \cup {Append(file, 0)}

InitIndexFile ==
    /\ InitQueue(1)
    /\ NoReplay
    /\ NoLoop
    /\ NoQuery
    /\ NoReader
    /\ NoLive
    /\ NoCursor
    /\ builder = None
    /\ index_file = None
    /\ sq = block_freq_index
    /\ other_sq = block_freq_index
    /\ \E num_docs \in NumDocsInputs :
          stream_builder = new_stream_builder(num_docs, GlobalParameters)

StreamAddPostingList(p) ==
    /\ index_file = None
    /\ Len(stream_builder.m_endpoints) - 1 < MaxLists
    /\ LET r == stream_add_posting_list(stream_builder, p.n, p.docs, p.freqs)
       IN /\ stream_builder' = r.data
          /\ call' = Call("add_posting_list", p, r.error, FALSE)
    /\ UNCHANGED <<queue_vars, replay_vars, loop_vars, m_data, flags, reader, live,
                   builder, index_file, sq, other_sq, raw_cursor>>

StreamBuild ==
    /\ index_file = None
    /\ index_file' = Some(stream_build(stream_builder))
    /\ stream_builder' = flush(stream_builder)
    /\ call' = Call("build", <<>>, "", FALSE)
    /\ UNCHANGED <<queue_vars, replay_vars, loop_vars, m_data, flags, reader, live,
                   builder, sq, other_sq, raw_cursor>>

\* block_freq_index sq(source), once the file is there
OpenIndex(source) ==
    /\ Alive
    /\ sq = block_freq_index
    /\ LET r == block_freq_index_from(source)
       IN /\ sq' = IF r.error = "" THEN r.sq ELSE sq
          /\ call' = Call("block_freq_index", source, r.error, FALSE)
    /\ UNCHANGED <<queue_vars, replay_vars, loop_vars, m_data, flags, reader, live,
                   builder, stream_builder, index_file, other_sq, raw_cursor>>

NextIndexFile ==
    \/ \E p \in PostingInputs : StreamAddPostingList(p)
    \/ StreamBuild
    \/ index_file # None /\ \E source \in SourcesOf(index_file[1]) : OpenIndex(source)
    \/ \E i \in 0..MaxLists - 1 : Subscript(i)

SpecIndexFile == InitIndexFile /\ [][NextIndexFile]_vars

----------------------------------------------------------------------------
(* Properties of the index reader, checked under SpecIndexFile *)

\* C28: constructing an index from a memory source that is shorter than
\* the sizes its header declares (the endpoint table, or list_blob_size
\* bytes of postings) fails with an error; no index comes out of it.
C28_ShortSourceIsRejected ==
    (call.op = "block_freq_index" /\ Len(call.args) < Len(index_file[1]))
        => call.error # ""

\* C29: the reader locates the postings blob at the sum of the sizes of
\* the header fields of the documented layout, 8 + sizeof(GlobalParameters)
\* + 8 + 8 + 8 + 8 + (8 * endpoint_size + 16) + 8, and takes exactly
\* list_blob_size bytes from there as the blob.
C29_BlobAtSumOfDocumentedFields ==
    (call.op = "block_freq_index" /\ call.error = "") =>
        LET endpoint_size == Len(stream_builder.m_endpoints) - 1
            list_blob_size == stream_builder.m_postings_bytes_written
        IN /\ sq.m_list_offset =
                 8 + SizeofGlobalParameters + 8 + 8 + 8 + 8
                   + (8 * endpoint_size + 16) + 8
           /\ sq.m_list_size = list_blob_size

\* C29 as the reader does it: the 8 * endpoint_size + 16 bytes of the
\* endpoint bit-vector begin with the reserved word and endpoint_size, so
\* the blob is at 8 + sizeof(GlobalParameters) + 8 + 8
\* + (8 * endpoint_size + 16) + 8; the blob is all that follows in the
\* source, which for the whole file is the list_blob_size bytes written.
C29_BlobAfterEndpointBitVector ==
    (call.op = "block_freq_index" /\ call.error = "") =>
        LET endpoint_size == Len(stream_builder.m_endpoints) - 1
            list_blob_size == stream_builder.m_postings_bytes_written
        IN /\ sq.m_list_offset =
                 8 + SizeofGlobalParameters + 8 + 8 + (8 * endpoint_size + 16) + 8
           /\ sq.m_list_size = (Len(sq.m_source) - sq.m_list_offset) % SizeModulus
           /\ sq.m_source = index_file[1] =>
                 /\ sq.m_list_size = list_blob_size
                 /\ bit_cast(SubSeq(sq.m_source, sq.m_list_offset - 7, sq.m_list_offset))
                       = list_blob_size
                 /\ SubSeq(sq.m_source, sq.m_list_offset + 1, Len(sq.m_source))
                       = stream_builder.m_postings_output

C29_Witness ==
    /\ call.op = "block_freq_index" /\ call.error = ""
    /\ sq.m_source = index_file[1]
    /\ sq.m_size = 2
    /\ sq.m_endpoints = <<0, 5>>
    /\ sq.m_list_offset = 69
    /\ sq.m_list_size = 8

----------------------------------------------------------------------------
(* RawCursor<T> (include/pisa/v1/raw_cursor.hpp) for T = std::uint16_t,    *)
(* over the bytes that RawWriter<T>::write produces.                       *)
SizeofT == 2
Sentinel == 65535
MaxPostings == 3
MaxPast == 2
PostingValues == {0, 1, 2}

\* the bytes of a T and of the std::uint32_t length, little-endian
T_bytes(v) == <<v % 256, v \div 256>>
uint32_bytes(v) == <<v % 256, (v \div 256) % 256, 0, 0>>

\* bit_cast<T>(bytes)
bit_cast_T(bytes) == bytes[1] + 256 * bytes[2]

\* RawWriter<T>::write(os) after push of each posting: the length, then
\* the postings
raw_write(m_postings) ==
    uint32_bytes(Len(m_postings))
        \o concat([j \in 1..Len(m_postings) |-> T_bytes(m_postings[j])])

\* RawCursor(bytes), for bytes that satisfy its Expects
RawCursor(bytes) == [m_current |-> 0, m_bytes |-> SubSeq(bytes, 5, Len(bytes))]

\* RawCursor::empty()
empty(c) == c.m_current = Len(c.m_bytes)

\* what the build does where m_bytes.subspan(m_current, sizeof(T)) does not
\* lie inside m_bytes: the Expects of gsl::span ends the process, or it is
\* compiled out and the bytes read have some value
CursorBuilds == [contract : {"terminate", "unenforced"}, garbage : {0, Sentinel}]

\* the subspan read by operator* lies inside m_bytes
inside(c) == c.m_current + SizeofT <= Len(c.m_bytes)

\* RawCursor::operator*() and value()
value(c, build) ==
    IF empty(c) THEN [error |-> "", value |-> Sentinel]
    ELSE IF inside(c)
    THEN [error |-> "",
          value |-> bit_cast_T(SubSeq(c.m_bytes, c.m_current + 1, c.m_current + SizeofT))]
    ELSE IF build.contract = "terminate" THEN [error |-> "abort", value |-> 0]
    ELSE [error |-> "", value |-> build.garbage]

\* RawCursor::advance()
advance(c) == [c EXCEPT !.m_current = @ + SizeofT]

\* RawCursor::advance_to_position(pos)
advance_to_position(c, pos) == [c EXCEPT !.m_current = pos]

\* variant of advance_to_geq with an if in place of the while
advance_to_geq_once(c, v, build) ==
    LET current == value(c, build)
    IN IF current.error # "" THEN [error |-> current.error, cursor |-> c]
       ELSE IF current.value < v THEN [error |-> "", cursor |-> advance(c)]
       ELSE [error |-> "", cursor |-> c]

\* RawCursor::advance_to_geq(value); a loop that is still reading MaxPast
\* values past the end runs into memory that is not mapped
RECURSIVE advance_to_geq(_, _, _)
advance_to_geq(c, v, build) ==
    LET current == value(c, build)
    IN IF current.error # "" THEN [error |-> current.error, cursor |-> c]
       ELSE IF current.value < v
       THEN IF c.m_current >= Len(c.m_bytes) + MaxPast * SizeofT
            THEN [error |-> "abort", cursor |-> c]
            ELSE advance_to_geq(advance(c), v, build)
       ELSE [error |-> "", cursor |-> c]

\* next(cursor)
cursor_next_value(c, build) ==
    LET advanced == advance(c)
    IN IF empty(advanced) THEN [error |-> "", cursor |-> advanced, ret |-> None]
       ELSE LET current == value(advanced, build)
            IN [error |-> current.error, cursor |-> advanced,
                ret |-> IF current.error = "" THEN Some(current.value) ELSE None]

\* the lists written: up to MaxPostings values in any order
PostingLists == SeqsUpTo(PostingValues, MaxPostings) \ {<<>>}

InitCursor ==
    /\ InitQueue(1)
    /\ NoReplay
    /\ NoLoop
    /\ NoQuery
    /\ NoReader
    /\ NoLive
    /\ NoIndex
    /\ \E m_postings \in PostingLists : raw_cursor = RawCursor(raw_write(m_postings))

\* m_current is not further than MaxPast values past the end
CursorNear == raw_cursor.m_current < Len(raw_cursor.m_bytes) + MaxPast * SizeofT

CursorAdvance ==
    /\ Alive
    /\ CursorNear
    /\ raw_cursor' = advance(raw_cursor)
    /\ call' = Call("advance", <<>>, "", FALSE)
    /\ UNCHANGED <<queue_vars, replay_vars, loop_vars, m_data, flags, reader, live,
                   index_vars>>

CursorNext ==
    /\ Alive
    /\ CursorNear
    /\ \E build \in CursorBuilds :
          LET r == cursor_next_value(raw_cursor, build)
          IN /\ raw_cursor' = r.cursor
             /\ call' = Call("next", <<>>, r.error, r.ret)
    /\ UNCHANGED <<queue_vars, replay_vars, loop_vars, m_data, flags, reader, live,
                   index_vars>>

CursorAdvanceToGeq(v) ==
    /\ Alive
    /\ \E build \in CursorBuilds :
          LET r == advance_to_geq(raw_cursor, v, build)
          IN /\ raw_cursor' = r.cursor
             /\ call' = Call("advance_to_geq", v, r.error, FALSE)
    /\ UNCHANGED <<queue_vars, replay_vars, loop_vars, m_data, flags, reader, live,
                   index_vars>>

CursorAdvanceToPosition(pos) ==
    /\ Alive
    /\ pos <= Len(raw_cursor.m_bytes)
    /\ raw_cursor' = advance_to_position(raw_cursor, pos)
    /\ call' = Call("advance_to_position", pos, "", FALSE)
    /\ UNCHANGED <<queue_vars, replay_vars, loop_vars, m_data, flags, reader, live,
                   index_vars>>

NextCursor ==
    \/ CursorAdvance
    \/ CursorNext
    \/ \E v \in PostingValues \cup {3, Sentinel} : CursorAdvanceToGeq(v)
    \/ \E i \in 0..MaxPostings : CursorAdvanceToPosition(i * SizeofT)

SpecCursor == InitCursor /\ [][NextCursor]_vars

----------------------------------------------------------------------------
(* Properties of the cursor, checked under SpecCursor *)

\* C30: once a RawCursor is exhausted (empty() is true and value() is the
\* sentinel) it stays so under advance(), next(cursor) and advance_to_geq:
\* each keeps value() at the sentinel and reads nothing outside the bytes
\* of the list.
C30_ExhaustedStaysExhausted ==
    [][(empty(raw_cursor) /\ call'.op \in {"advance", "next", "advance_to_geq"}) =>
          /\ empty(raw_cursor')
          /\ call'.error = ""
          /\ \A build \in CursorBuilds :
                value(raw_cursor', build) = [error |-> "", value |-> Sentinel]]_vars

----------------------------------------------------------------------------
(* A cursor that is moved by advance_to_geq alone *)

NextCursorGeq == \E v \in PostingValues \cup {3, Sentinel} : CursorAdvanceToGeq(v)

SpecCursorGeq == InitCursor /\ [][NextCursorGeq]_vars

\* the values the cursor's bytes hold
values_of(c) == [j \in 1..(Len(c.m_bytes) \div SizeofT) |-> bit_cast_T(SubSeq(c.m_bytes, (j - 1) * SizeofT + 1, j * SizeofT))]

\* C31: from a fresh cursor or after any sequence of advance_to_geq calls,
\* advance_to_geq(x) terminates (it returns with the position inside the
\* list or at its end) and afterwards value() >= x; if x exceeds every value
\* of the list the cursor ends exhausted with value() the sentinel; the
\* position never moves backwards.
C31_AdvanceToGeqReachesTarget ==
    [][call'.op = "advance_to_geq" =>
          /\ call'.error = ""
          /\ raw_cursor'.m_current <= Len(raw_cursor'.m_bytes)
          /\ raw_cursor'.m_current >= raw_cursor.m_current
          /\ \A build \in CursorBuilds :
                /\ value(raw_cursor', build).error = ""
                /\ value(raw_cursor', build).value >= call'.args
                /\ (\A j \in DOMAIN values_of(raw_cursor) : call'.args > values_of(raw_cursor)[j]) =>
                      /\ empty(raw_cursor')
                      /\ value(raw_cursor', build).value = Sentinel]_vars

\* a cursor over two values that advance_to_geq(3), above both, has exhausted
C31_Witness ==
    /\ call.op = "advance_to_geq"
    /\ call.args = 3
    /\ call.error = ""
    /\ Len(raw_cursor.m_bytes) = 2 * SizeofT
    /\ empty(raw_cursor)

----------------------------------------------------------------------------
(* block_freq_index::swap between the index built and a second index *)

\* block_freq_index::swap(other): the two indexes after the call
swap(lhs, rhs) ==
    [lhs |-> [lhs EXCEPT !.m_params = rhs.m_params,
                         !.m_size = rhs.m_size,
                         !.m_endpoints = rhs.m_endpoints,
                         !.m_source = rhs.m_source,
                         !.m_list_offset = rhs.m_list_offset,
                         !.m_list_size = rhs.m_list_size],
     rhs |-> [rhs EXCEPT !.m_params = lhs.m_params,
                         !.m_size = lhs.m_size,
                         !.m_endpoints = lhs.m_endpoints,
                         !.m_source = lhs.m_source,
                         !.m_list_offset = lhs.m_list_offset,
                         !.m_list_size = lhs.m_list_size]]

\* the second index: a default one, or one built by a builder of its own
\* with no list or one list
OtherIndexes ==
    LET fresh == {new_builder(num_docs, GlobalParameters) : num_docs \in NumDocsInputs}
        filled == {add_posting_list_bytes(b, <<2, 2>>).data : b \in fresh}
    IN {block_freq_index} \cup {builder_build(b).sq : b \in fresh \cup filled}

InitSwap ==
    /\ InitQueue(1)
    /\ NoReplay
    /\ NoLoop
    /\ NoQuery
    /\ NoReader
    /\ NoLive
    /\ NoCursor
    /\ stream_builder = None
    /\ index_file = None
    /\ sq = block_freq_index
    /\ other_sq \in OtherIndexes
    /\ \E num_docs \in NumDocsInputs : builder = new_builder(num_docs, GlobalParameters)

\* sq.swap(other_sq)
Swap ==
    /\ Alive
    /\ LET r == swap(sq, other_sq)
       IN /\ sq' = r.lhs
          /\ other_sq' = r.rhs
          /\ call' = Call("swap", <<>>, "", FALSE)
    /\ UNCHANGED <<queue_vars, replay_vars, loop_vars, m_data, flags, reader, live,
                   builder, stream_builder, index_file, raw_cursor>>

NextSwap ==
    \/ NextBuilder
    \/ Swap

SpecSwap == InitSwap /\ [][NextSwap]_vars

\* what an index shows: size(), num_docs() and the span and num_docs that
\* each sq[i] hands to its enumerator
observable(idx) ==
    [size |-> idx.m_size,
     num_docs |-> idx.m_num_docs,
     lists |-> [i \in 0..idx.m_size - 1 |->
                  [build \in IndexBuilds |-> subscript(idx, i, build)]]]

\* C32: a.swap(b) exchanges the complete observable state of two indexes:
\* afterwards size(), num_docs() and every a[i] of a are what b had before
\* the call, and the other way round.
C32_SwapExchangesObservableState ==
    [][call'.op = "swap" =>
          /\ observable(sq') = observable(other_sq)
          /\ observable(other_sq') = observable(sq)]_vars

----------------------------------------------------------------------------
(* Removal from a RequestFlagSet, checked under SpecFlags *)

\* C33: for every RequestFlagSet s and flag f, after s.remove(f), and in
\* the result of s ^ f, contains(f) is false and the membership of every
\* other flag is as in s, whether or not f was in s before the call.
C33_RemoveClearsTheFlag ==
    call.op \in {"remove", "flagset_xor"} =>
        /\ ~contains(call.ret, call.rhs)
        /\ \A f \in RequestFlag \ {call.rhs} :
              contains(call.ret, f) = contains(call.lhs, f)

----------------------------------------------------------------------------
(* A container read by from_json and then given thresholds and selections *)
MaxEntries == 2

\* the entries of the arrays "thresholds" and "selections" of a JSON line
ThresholdEntries == {[k |-> k, score |-> score] : k \in Ks, score \in {1, 2}}
SelectionEntries == {[k |-> k, intersections |-> masks] : k \in Ks, masks \in {<<1>>, <<6>>}}

\* JSON lines with term_ids and up to MaxEntries thresholds or selections
ImportJsonInputs ==
    {Json(None, None, None, Some(<<1, 0, 1>>), Some(json_array), None) :
        json_array \in SeqsUpTo(ThresholdEntries, MaxEntries)}
    \cup
    {Json(None, None, None, Some(<<1, 0, 1>>), None, Some(json_array)) :
        json_array \in SeqsUpTo(SelectionEntries, MaxEntries)}

NextImport ==
    \/ \E json \in ImportJsonInputs : FromJson(json)
    \/ \E t \in ThresholdInputs : AddThreshold(t[1], t[2])
    \/ \E s \in SelectionInputs : AddSelection(s[1], s[2])

SpecImport == InitContainer /\ [][NextImport]_vars

\* the number of entries of v stored for k
entries_for(v, k) == Cardinality({i \in 1..Len(v) : v[i][1] = k})

\* the value of the last entry of v stored for k
last_for(v, k) ==
    IF entries_for(v, k) = 0 THEN None
    ELSE Some(v[CHOOSE i \in 1..Len(v) :
                   v[i][1] = k /\ \A j \in i + 1..Len(v) : v[j][1] # k][2])

\* C34: in every container reached by from_json followed by any sequence of
\* add_threshold and add_selection calls, thresholds() and selections() hold
\* at most one entry per k, so threshold(k) and selection(k) return the
\* value most recently stored for k: after from_json the last one of the
\* line, after add_threshold or add_selection the one just given.
C34_OneEntryPerK ==
    [][(call'.op \in {"from_json", "add_threshold", "add_selection"} /\ call'.error = "") =>
          /\ \A k \in Ks :
                /\ entries_for(m_data'.thresholds, k) <= 1
                /\ entries_for(m_data'.selections, k) <= 1
          /\ call'.op = "from_json" =>
                \A k \in Ks :
                   /\ QueryContainer_threshold(m_data', k) = last_for(m_data'.thresholds, k)
                   /\ QueryContainer_selection(m_data', k) = last_for(m_data'.selections, k)
          /\ call'.op = "add_threshold" =>
                QueryContainer_threshold(m_data', call'.args[1]) = Some(call'.args[2])
          /\ call'.op = "add_selection" =>
                QueryContainer_selection(m_data', call'.args[1]) = Some(call'.args[2])]_vars

====
